---- MODULE Spec2Model ----
(***************************************************************************)
(* State-machine model of the EMCI analysis scripts.                       *)
(*                                                                         *)
(*   Phase1/pluto_change_detection.py   df, summary, update_trend          *)
(*   Phase4/D_time.py, calc_building_demand.py   demand index D            *)
(*   Phase3/eci_time.py, eci_d.py       density index eci                  *)
(*   Phase5/forecast.py                 composite index EMCI               *)
(*                                                                         *)
(* pandas/numpy float cells are modelled as extended rationals (finite     *)
(* n/d, NaN, +inf, -inf) with IEEE-754 rules for division by zero and NaN  *)
(* propagation.  Python strings are sequences of one-character strings.    *)
(***************************************************************************)
EXTENDS Integers, Sequences, FiniteSets, TLC

(***************************************************************************)
(* Bounds of the explored inputs.                                          *)
(***************************************************************************)
NumYears == 3
MaxRows == 2

(***************************************************************************)
(* float64 cells.                                                          *)
(***************************************************************************)
RECURSIVE GCD(_, _)
GCD(a, b) == IF b = 0 THEN a ELSE GCD(b, a % b)

Abs(n) == IF n < 0 THEN -n ELSE n

Sign(n) == IF n < 0 THEN -1 ELSE IF n > 0 THEN 1 ELSE 0

NaN == [k |-> "nan", n |-> 0, d |-> 0]

Inf(s) == [k |-> "inf", n |-> s, d |-> 0]

Fin(n, d) ==
    LET g == GCD(Abs(n), Abs(d))
        s == IF d < 0 THEN -1 ELSE 1
    IN  [k |-> "fin", n |-> s * (n \div g), d |-> s * (d \div g)]

I2F(i) == [k |-> "fin", n |-> i, d |-> 1]

isna(a) == a.k = "nan"

IsFin(a) == a.k = "fin"

IsInf(a) == a.k = "inf"

FNeg(a) == IF IsFin(a) THEN Fin(-a.n, a.d) ELSE IF IsInf(a) THEN Inf(-a.n) ELSE NaN

FAdd(a, b) ==
    IF isna(a) \/ isna(b) THEN NaN
    ELSE IF IsInf(a) /\ IsInf(b) THEN (IF a.n = b.n THEN a ELSE NaN)
    ELSE IF IsInf(a) THEN a
    ELSE IF IsInf(b) THEN b
    ELSE LET g == GCD(a.d, b.d)
         IN  Fin(a.n * (b.d \div g) + b.n * (a.d \div g), (a.d \div g) * b.d)

FSub(a, b) == FAdd(a, FNeg(b))

FMul(a, b) ==
    IF isna(a) \/ isna(b) THEN NaN
    ELSE IF IsInf(a) \/ IsInf(b)
         THEN (IF Sign(a.n) * Sign(b.n) = 0 THEN NaN ELSE Inf(Sign(a.n) * Sign(b.n)))
    ELSE Fin(a.n * b.n, a.d * b.d)

(* numpy true division: x/0 is +-inf, 0/0 and inf/inf are NaN, x/inf is 0 *)
FDiv(a, b) ==
    IF isna(a) \/ isna(b) THEN NaN
    ELSE IF IsInf(a) THEN (IF IsInf(b) THEN NaN
                           ELSE Inf(a.n * (IF b.n < 0 THEN -1 ELSE 1)))
    ELSE IF IsInf(b) THEN I2F(0)
    ELSE IF b.n = 0 THEN (IF a.n = 0 THEN NaN ELSE Inf(Sign(a.n)))
    ELSE Fin(a.n * b.d, a.d * b.n)

(* comparisons: every ordered comparison with NaN is False, != is True *)
FLt(a, b) ==
    IF isna(a) \/ isna(b) THEN FALSE
    ELSE IF IsInf(a) THEN a.n < 0 /\ ~(IsInf(b) /\ b.n < 0)
    ELSE IF IsInf(b) THEN b.n > 0
    ELSE LET g == GCD(a.d, b.d) IN a.n * (b.d \div g) < b.n * (a.d \div g)

FGt(a, b) == FLt(b, a)

FEq(a, b) == ~isna(a) /\ ~isna(b) /\ a = b

FNe(a, b) == ~FEq(a, b)

FLe(a, b) == FLt(a, b) \/ FEq(a, b)

(* Series.min() / .max() / .mean() / .count(): NaN cells are skipped *)
NotNa(s) == SelectSeq(s, LAMBDA v : ~isna(v))

RECURSIVE FoldMin(_)
FoldMin(s) ==
    IF Len(s) = 1 THEN s[1]
    ELSE LET m == FoldMin(Tail(s)) IN IF FLt(s[1], m) THEN s[1] ELSE m

RECURSIVE FoldMax(_)
FoldMax(s) ==
    IF Len(s) = 1 THEN s[1]
    ELSE LET m == FoldMax(Tail(s)) IN IF FGt(s[1], m) THEN s[1] ELSE m

RECURSIVE FoldSum(_)
FoldSum(s) == IF s = <<>> THEN I2F(0) ELSE FAdd(s[1], FoldSum(Tail(s)))

SMin(s) == IF NotNa(s) = <<>> THEN NaN ELSE FoldMin(NotNa(s))

SMax(s) == IF NotNa(s) = <<>> THEN NaN ELSE FoldMax(NotNa(s))

SMean(s) == IF NotNa(s) = <<>> THEN NaN ELSE FDiv(FoldSum(NotNa(s)), I2F(Len(NotNa(s))))

fillna(a, v) == IF isna(a) THEN v ELSE a

(* np.log1p / np.log10 in fixed point (four decimals, truncated): ln(p/q) = k ln 2 + 2 atanh(z),
   z = (m - 1)/(m + 1), m = p / (q 2^k) in [1, 2) *)
RECURSIVE Halvings(_, _)
Halvings(p, q) == IF p >= 2 * q THEN 1 + Halvings(p, 2 * q) ELSE 0

RECURSIVE Pow2(_)
Pow2(k) == IF k = 0 THEN 1 ELSE 2 * Pow2(k - 1)

RECURSIVE ShrinkBy(_)
ShrinkBy(p) == IF p > 100000 THEN 2 * ShrinkBy(p \div 2) ELSE 1

LnFixed(p0, q0) ==
    LET c == ShrinkBy(p0)
        p == p0 \div c
        q == IF q0 \div c = 0 THEN 1 ELSE q0 \div c
        k == Halvings(p, q)
        q2 == q * Pow2(k)
        z == ((p - q2) * 10000) \div (p + q2)
        z2 == (z * z) \div 10000
        t3 == (z * z2) \div 10000
        t5 == (t3 * z2) \div 10000
        t7 == (t5 * z2) \div 10000
    IN  k * 6931 + 2 * (z + (t3 \div 3) + (t5 \div 5) + (t7 \div 7))

Ln(a) ==
    IF isna(a) THEN NaN
    ELSE IF IsInf(a) THEN (IF a.n > 0 THEN a ELSE NaN)
    ELSE IF a.n < 0 THEN NaN
    ELSE IF a.n = 0 THEN Inf(-1)
    ELSE IF a.n >= a.d THEN Fin(LnFixed(a.n, a.d), 10000)
    ELSE Fin(-LnFixed(a.d, a.n), 10000)

log1p(a) == Ln(FAdd(a, I2F(1)))

log10(a) ==
    IF IsFin(Ln(a)) THEN Fin((Ln(a).n * (10000 \div Ln(a).d) * 10000) \div 23026, 10000)
    ELSE Ln(a)

(***************************************************************************)
(* Python strings.                                                         *)
(***************************************************************************)
Digits == <<"0", "1", "2", "3", "4", "5", "6", "7", "8", "9">>

IsDigitChar(c) == \E i \in 1..10 : Digits[i] = c

RECURSIVE lstrip(_)
lstrip(s) == IF s # <<>> /\ s[1] = " " THEN lstrip(Tail(s)) ELSE s

RECURSIVE rstrip(_)
rstrip(s) ==
    IF s # <<>> /\ s[Len(s)] = " " THEN rstrip(SubSeq(s, 1, Len(s) - 1)) ELSE s

strip(s) == rstrip(lstrip(s))

Upper ==
    <<"A", "B", "C", "D", "E", "F", "G", "H", "I", "J", "K", "L", "M",
      "N", "O", "P", "Q", "R", "S", "T", "U", "V", "W", "X", "Y", "Z">>

Lower ==
    <<"a", "b", "c", "d", "e", "f", "g", "h", "i", "j", "k", "l", "m",
      "n", "o", "p", "q", "r", "s", "t", "u", "v", "w", "x", "y", "z">>

LowerChar(c) ==
    IF \E i \in 1..26 : Upper[i] = c THEN Lower[CHOOSE i \in 1..26 : Upper[i] = c] ELSE c

lower(s) == [i \in 1..Len(s) |-> LowerChar(s[i])]

isdigit(s) == s # <<>> /\ \A i \in 1..Len(s) : IsDigitChar(s[i])

startswith(s, p) == Len(s) >= Len(p) /\ SubSeq(s, 1, Len(p)) = p

(* sub in s *)
contains(s, sub) ==
    \E i \in 1..(Len(s) - Len(sub) + 1) : SubSeq(s, i, i + Len(sub) - 1) = sub

(* str() of an int and of an integral float: 12 -> "12", 12.0 -> "12.0" *)
RECURSIVE NatStr(_)
NatStr(n) == IF n < 10 THEN <<Digits[n + 1]>> ELSE NatStr(n \div 10) \o <<Digits[(n % 10) + 1]>>

IntStr(n) == IF n < 0 THEN <<"-">> \o NatStr(-n) ELSE NatStr(n)

(***************************************************************************)
(* Small sequence helpers.                                                 *)
(***************************************************************************)
Range(s) == {s[i] : i \in 1..Len(s)}

RECURSIVE SetToSeq(_)
SetToSeq(S) ==
    IF S = {} THEN <<>>
    ELSE LET x == CHOOSE x \in S : TRUE IN <<x>> \o SetToSeq(S \ {x})

Reverse(s) == [i \in 1..Len(s) |-> s[Len(s) + 1 - i]]

Column(s, c) == [i \in 1..Len(s) |-> s[i][c]]

(* missing value of an object (string) cell *)
NaS == <<"NaN">>

(***************************************************************************)
(* State.  Every script is a straight-line batch program; pcN is its       *)
(* position, the remaining variables are its data frames and the files it  *)
(* writes.                                                                 *)
(***************************************************************************)
VARIABLES df, summary, update_trend, pc1, out1
VARIABLES script4, pluto, years4, pluto_all, nta_out, pc4, out4
VARIABLES land_use_cell, d_type
VARIABLES script3, linknyc, nta_gdf, years3, annual_results, pc3, out3
VARIABLES eci_summary, d_nta, pluto_lots, years5, all_years_results, final_df, pc5
VARIABLES emci_csv, features, growth_df
VARIABLES script0, files, fi, all_data, pc0, out0
VARIABLES pluto_columns
VARIABLES df6, df_2024, pc6
VARIABLES group, change
VARIABLES all_files, file_i, dfs, first_columns, merged_df, pc8, out8

vars1 == <<df, summary, update_trend, pc1, out1>>

vars4 == <<script4, pluto, years4, pluto_all, nta_out, pc4, out4>>

varsT == <<land_use_cell, d_type>>

vars3 == <<script3, linknyc, nta_gdf, years3, annual_results, pc3, out3>>

vars5 ==
    <<eci_summary, d_nta, pluto_lots, years5, all_years_results, final_df, pc5,
      emci_csv, features, growth_df>>

vars0 == <<script0, files, fi, all_data, pc0, out0>>

vars6 == <<df6, df_2024, pc6>>

vars7 == <<group, change>>

vars8 == <<all_files, file_i, dfs, first_columns, merged_df, pc8, out8>>

vars == <<vars1, vars4, varsT, vars3, vars5, vars0, pluto_columns, vars6, vars7, vars8>>

rest1 == <<vars4, varsT, vars3, vars5, vars0, pluto_columns, vars6, vars7, vars8>>

rest4 == <<vars1, varsT, vars3, vars5, vars0, pluto_columns, vars6, vars7, vars8>>

restT == <<vars1, vars4, vars3, vars5, vars0, pluto_columns, vars6, vars7, vars8>>

rest3 == <<vars1, vars4, varsT, vars5, vars0, pluto_columns, vars6, vars7, vars8>>

rest5 == <<vars1, vars4, varsT, vars3, vars0, pluto_columns, vars6, vars7, vars8>>

rest0 == <<vars1, vars4, varsT, vars3, vars5, pluto_columns, vars6, vars7, vars8>>

rest6 == <<vars1, vars4, varsT, vars3, vars5, vars0, pluto_columns, vars7, vars8>>

rest7 == <<vars1, vars4, varsT, vars3, vars5, vars0, pluto_columns, vars6, vars8>>

rest8 == <<vars1, vars4, varsT, vars3, vars5, vars0, pluto_columns, vars6, vars7>>

Idle1 ==
    /\ df = <<>>
    /\ summary = {}
    /\ update_trend = <<>>
    /\ pc1 = "idle"
    /\ out1 = [summary |-> {}, trend |-> <<>>]

Idle4 ==
    /\ script4 = "none"
    /\ pluto = <<>>
    /\ years4 = <<>>
    /\ pluto_all = <<>>
    /\ nta_out = <<>>
    /\ pc4 = "idle"
    /\ out4 = [parcel |-> <<>>, nta |-> <<>>, written |-> {}]

IdleT ==
    /\ land_use_cell = [t |-> "nan", v |-> 0, s |-> <<>>]
    /\ d_type = <<>>

Idle3 ==
    /\ script3 = "none"
    /\ linknyc = <<>>
    /\ nta_gdf = <<>>
    /\ years3 = <<>>
    /\ annual_results = <<>>
    /\ pc3 = "idle"
    /\ out3 = [name |-> "", rows |-> <<>>]

Idle5 ==
    /\ eci_summary = <<>>
    /\ d_nta = <<>>
    /\ pluto_lots = <<>>
    /\ years5 = <<>>
    /\ all_years_results = <<>>
    /\ final_df = <<>>
    /\ pc5 = "idle"
    /\ emci_csv = <<>>
    /\ features = <<>>
    /\ growth_df = <<>>

Idle0 ==
    /\ script0 = "none"
    /\ files = <<>>
    /\ fi = 1
    /\ all_data = <<>>
    /\ pc0 = "idle"
    /\ out0 = [name |-> "", rows |-> <<>>]

Idle6 ==
    /\ df6 = <<>>
    /\ df_2024 = <<>>
    /\ pc6 = "idle"

Idle7 ==
    /\ group = <<>>
    /\ change = <<>>

Idle8 ==
    /\ all_files = <<>>
    /\ file_i = 1
    /\ dfs = <<>>
    /\ first_columns = {}
    /\ merged_df = <<>>
    /\ pc8 = "idle"
    /\ out8 = [written |-> FALSE, rows |-> <<>>]

(* D_time.py 56: the columns the parcel table must have *)
RequiredColumns == {"units_res", "land_use", "bbl", "year"}

(* the parcel table read at D_time.py 47, calc_building_demand.py 42 and
   forecast.py 76 has every required column *)
FullSchema == pluto_columns = RequiredColumns

(***************************************************************************)
(* Phase 1 : Phase1/pluto_change_detection.py                              *)
(***************************************************************************)
FirstYear == 2016

Years == {I2F(FirstYear + i) : i \in 0..(NumYears - 1)}

(* sort_values(["bbl", "year"]) / sort_values("year"): stable insertion *)
CharRank(c) == IF c = " " THEN 0 ELSE 1 + (CHOOSE i \in 1..10 : Digits[i] = c)

RECURSIVE StrLess(_, _)
StrLess(a, b) ==
    IF b = <<>> THEN FALSE
    ELSE IF a = <<>> THEN TRUE
    ELSE IF a[1] # b[1] THEN CharRank(a[1]) < CharRank(b[1])
    ELSE StrLess(Tail(a), Tail(b))

RowLess(keys, r, q) ==
    IF keys = "bbl_year"
    THEN StrLess(r.bbl, q.bbl) \/ (r.bbl = q.bbl /\ FLt(r.year, q.year))
    ELSE FLt(r.year, q.year)

RECURSIVE InsertRow(_, _, _)
InsertRow(keys, r, s) ==
    IF s = <<>> THEN <<r>>
    ELSE IF RowLess(keys, r, s[Len(s)]) 
         THEN InsertRow(keys, r, SubSeq(s, 1, Len(s) - 1)) \o <<s[Len(s)]>>
         ELSE s \o <<r>>

RECURSIVE sort_values(_, _)
sort_values(s, keys) ==
    IF s = <<>> THEN <<>>
    ELSE InsertRow(keys, s[Len(s)], sort_values(SubSeq(s, 1, Len(s) - 1), keys))

(* lines 23-26: dropna, astype(str).str.strip(), astype(int), sort *)
astype_int(a) == I2F(a.n \div a.d)

Preprocessed(t) ==
    LET kept == SelectSeq(t, LAMBDA r : r.bbl # NaS /\ ~isna(r.year))
        conv == [i \in 1..Len(kept) |->
                    [kept[i] EXCEPT !.bbl = strip(@), !.year = astype_int(@)]]
    IN  sort_values(conv, "bbl_year")

(* lines 29-62 *)
classify_changes(g0) ==
    LET g == sort_values(g0, "year")
        year_built_first == g[1].year_built
        year_built_last == g[Len(g)].year_built
        land_use_first == g[1].land_use
        land_use_last == g[Len(g)].land_use
        bldg_area_min == SMin(Column(g, "bldg_area"))
        bldg_area_max == SMax(Column(g, "bldg_area"))
        units_res_min == SMin(Column(g, "units_res"))
        units_res_max == SMax(Column(g, "units_res"))
        rebuilt == FNe(year_built_first, year_built_last) /\ FGt(year_built_last, I2F(0))
        use_change == FNe(land_use_first, land_use_last)
        area_increase ==
            FGt(FSub(bldg_area_max, bldg_area_min), FMul(Fin(1, 10), bldg_area_min))
        units_increase == FGt(FSub(units_res_max, units_res_min), I2F(0))
    IN  [first_year |-> SMin(Column(g, "year")),
         last_year |-> SMax(Column(g, "year")),
         years_recorded |-> Len(g),
         year_built_first |-> year_built_first,
         year_built_last |-> year_built_last,
         land_use_first |-> land_use_first,
         land_use_last |-> land_use_last,
         bldg_area_min |-> bldg_area_min,
         bldg_area_max |-> bldg_area_max,
         units_res_min |-> units_res_min,
         units_res_max |-> units_res_max,
         change_type |-> IF rebuilt THEN "Rebuilt"
                         ELSE IF use_change THEN "UseChange"
                         ELSE IF area_increase \/ units_increase THEN "Expanded"
                         ELSE "Stable"]

(* line 65: df.groupby("bbl").apply(classify_changes).reset_index() *)
GroupRows(t, b) == SelectSeq(t, LAMBDA r : r.bbl = b)

GroupByApply(t) ==
    LET keys == {t[i].bbl : i \in 1..Len(t)}
    IN  {[bbl |-> b, res |-> classify_changes(GroupRows(t, b))] : b \in keys}

(* lines 73-77: nunique per year, diff() / shift(1), fillna(0) *)
YearKeys(t) ==
    LET ys == SetToSeq({t[i].year : i \in 1..Len(t)})
    IN  sort_values([i \in 1..Len(ys) |-> [year |-> ys[i]]], "year")

nunique(t, y) == I2F(Cardinality({t[i].bbl : i \in {j \in 1..Len(t) : t[j].year = y}}))

diff(s) == [i \in 1..Len(s) |-> IF i = 1 THEN NaN ELSE FSub(s[i], s[i - 1])]

shift(s) == [i \in 1..Len(s) |-> IF i = 1 THEN NaN ELSE s[i - 1]]

(* the ratio taken against the year's own count instead of the prior one *)
UpdateTrendOwnCount(t) ==
    LET ks == YearKeys(t)
        cnt == [i \in 1..Len(ks) |-> nunique(t, ks[i].year)]
    IN  [i \in 1..Len(ks) |->
            [year |-> ks[i].year,
             update_ratio |-> fillna(FDiv(diff(cnt)[i], cnt[i]), I2F(0))]]

UpdateTrend(t) ==
    LET ks == YearKeys(t)
        cnt == [i \in 1..Len(ks) |-> nunique(t, ks[i].year)]
    IN  [i \in 1..Len(ks) |->
            [year |-> ks[i].year,
             update_ratio |-> fillna(FDiv(diff(cnt)[i], shift(cnt)[i]), I2F(0))]]

(* ---- inputs: the parcel table read at line 20 ---- *)
MkRow(b, y, a) ==
    [bbl |-> b, year |-> y, year_built |-> a.year_built, land_use |-> a.land_use,
     bldg_area |-> a.bldg_area, units_res |-> a.units_res]

AttrVals ==
    [year_built : {NaN, I2F(0), I2F(1990)},
     land_use : {NaN, I2F(1), I2F(2)},
     bldg_area : {NaN, I2F(10), I2F(11), I2F(12)},
     units_res : {NaN, I2F(0), I2F(5)}]

DefaultAttr ==
    [year_built |-> I2F(1990), land_use |-> I2F(1), bldg_area |-> I2F(10),
     units_res |-> I2F(0)]

YearSeqs ==
    {ys \in UNION {[1..n -> Years] : n \in 1..MaxRows} :
        \A i \in 1..(Len(ys) - 1) : FLt(ys[i], ys[i + 1])}

(* one parcel observed in up to MaxRows distinct years, any attributes,
   rows in ascending or descending file order *)
HistoryTable(ys, a, rev) ==
    LET t == [i \in 1..Len(ys) |-> MkRow(<<"1">>, ys[i], a[i])]
    IN  IF rev THEN Reverse(t) ELSE t

(* several parcels, some rows without bbl or year, constant attributes *)
BblRaw == {<<"1">>, <<" ", "1">>, <<"2">>, NaS}

CountCells == BblRaw \X (Years \cup {NaN})

CountTable(c) ==
    LET cs == SetToSeq(c)
    IN  [i \in 1..Len(cs) |-> MkRow(cs[i][1], cs[i][2], DefaultAttr)]

Init1 ==
    /\ \/ \E ys \in YearSeqs, rev \in BOOLEAN :
            \E a \in [1..Len(ys) -> AttrVals] : df = HistoryTable(ys, a, rev)
       \/ \E c \in SUBSET CountCells :
            /\ Cardinality(c) <= MaxRows + 2
            /\ \E x \in c : x[1] # NaS /\ ~isna(x[2])
            /\ df = CountTable(c)
    /\ summary = {}
    /\ update_trend = <<>>
    /\ pc1 = "read"
    /\ out1 = [summary |-> {}, trend |-> <<>>]
    /\ Idle4 /\ IdleT /\ Idle3 /\ Idle5 /\ Idle0 /\ FullSchema /\ Idle6 /\ Idle7 /\ Idle8

Preprocess ==
    /\ pc1 = "read"
    /\ df' = Preprocessed(df)
    /\ pc1' = "classify"
    /\ UNCHANGED <<summary, update_trend, out1, rest1>>

Classify ==
    /\ pc1 = "classify"
    /\ summary' = GroupByApply(df)
    /\ pc1' = "trend"
    /\ UNCHANGED <<df, update_trend, out1, rest1>>

Trend ==
    /\ pc1 = "trend"
    /\ update_trend' = UpdateTrend(df)
    /\ pc1' = "save"
    /\ UNCHANGED <<df, summary, out1, rest1>>

Save1 ==
    /\ pc1 = "save"
    /\ out1' = [summary |-> summary, trend |-> update_trend]
    /\ pc1' = "done"
    /\ UNCHANGED <<df, summary, update_trend, rest1>>

Next1 == Preprocess \/ Classify \/ Trend \/ Save1

SpecChange == Init1 /\ [][Next1]_vars

(***************************************************************************)
(* Properties of the change classifier and the update-ratio series.        *)
(***************************************************************************)
Classified == pc1 \in {"trend", "save", "done"}

ParcelRows(b) == {r \in Range(df) : r.bbl = b}

FirstRow(b) == CHOOSE r \in ParcelRows(b) : \A q \in ParcelRows(b) : ~FLt(q.year, r.year)

LastRow(b) == CHOOSE r \in ParcelRows(b) : \A q \in ParcelRows(b) : ~FGt(q.year, r.year)

(* two cells differ when they do not hold the same value; two missing cells
   hold no differing value *)
Differs(x, y) == x # y

FirstMatch(e) ==
    IF Differs(FirstRow(e.bbl).year_built, LastRow(e.bbl).year_built)
       /\ FGt(LastRow(e.bbl).year_built, I2F(0))
    THEN "Rebuilt"
    ELSE IF Differs(FirstRow(e.bbl).land_use, LastRow(e.bbl).land_use)
    THEN "UseChange"
    ELSE IF \/ FGt(FSub(e.res.bldg_area_max, e.res.bldg_area_min),
                   FMul(Fin(1, 10), e.res.bldg_area_min))
            \/ FGt(FSub(e.res.units_res_max, e.res.units_res_min), I2F(0))
    THEN "Expanded"
    ELSE "Stable"

(* C1: every parcel gets the change_type of the first matching rule in the
   order Rebuilt, UseChange, Expanded, Stable, the rules comparing the first
   and last rows' year_built and land_use and the area / unit extremes. *)
C1_FirstMatchingRule ==
    Classified => \A e \in summary : e.res.change_type = FirstMatch(e)

(* C2: a parcel with exactly one row is Stable whatever its attribute
   values, missing ones included. *)
C2_SingleRowStable ==
    Classified =>
        \A e \in summary : Cardinality(ParcelRows(e.bbl)) = 1 => e.res.change_type = "Stable"

AreaGrew(b) ==
    \E r, q \in ParcelRows(b) :
        /\ FLt(r.year, q.year)
        /\ FGt(FSub(q.bldg_area, r.bldg_area),
               FMul(Fin(1, 10), SMin(SetToSeq({x.bldg_area : x \in ParcelRows(b)}))))

UnitsIncreased(b) ==
    \E r, q \in ParcelRows(b) : FLt(r.year, q.year) /\ FGt(q.units_res, r.units_res)

(* C3: a parcel that is neither Rebuilt nor UseChange is Expanded exactly
   when its area grew by more than 10% of its minimum or a later year has
   more residential units than an earlier year, and Stable otherwise. *)
C3_ExpandedIffGrowth ==
    Classified =>
        \A e \in summary :
            e.res.change_type \notin {"Rebuilt", "UseChange"} =>
                /\ e.res.change_type \in {"Expanded", "Stable"}
                /\ e.res.change_type = "Expanded" <=> (AreaGrew(e.bbl) \/ UnitsIncreased(e.bbl))

TrendDone == pc1 \in {"save", "done"}

DistinctBbl(y) == I2F(Cardinality({r.bbl : r \in {q \in Range(df) : q.year = y}}))

TableYears == {r.year : r \in Range(df)}

PriorYears(y) == {z \in TableYears : FLt(z, y)}

PrecedingYear(y) == CHOOSE z \in PriorYears(y) : \A w \in PriorYears(y) : ~FGt(w, z)

RatioAgainst(y, p) == FDiv(FSub(DistinctBbl(y), DistinctBbl(p)), DistinctBbl(p))

(* C4 as stated: the ratio of every year but the first is taken against the
   preceding calendar year y-1, and the first year's ratio is 0. *)
C4_RatioAgainstCalendarYear ==
    TrendDone =>
        \A i \in 1..Len(update_trend) :
            update_trend[i].update_ratio =
                IF PriorYears(update_trend[i].year) = {} THEN I2F(0)
                ELSE RatioAgainst(update_trend[i].year, FSub(update_trend[i].year, I2F(1)))

(* C4 amended: the series holds one entry per year of the table, and the
   ratio of every year but the first is taken against the preceding year
   present in the table; the first year's ratio is 0. *)
C4_RatioAgainstPrecedingRow ==
    TrendDone =>
        /\ {update_trend[i].year : i \in 1..Len(update_trend)} = TableYears
        /\ Len(update_trend) = Cardinality(TableYears)
        /\ \A i \in 1..Len(update_trend) :
              update_trend[i].update_ratio =
                  IF PriorYears(update_trend[i].year) = {} THEN I2F(0)
                  ELSE RatioAgainst(update_trend[i].year, PrecedingYear(update_trend[i].year))

C4_Witness ==
    /\ pc1 = "done"
    /\ \E i \in 2..Len(update_trend) :
          /\ update_trend[i].update_ratio # I2F(0)
          /\ FSub(update_trend[i].year, update_trend[i - 1].year) = I2F(2)

(***************************************************************************)
(* Phase 4 : Phase4/D_time.py and Phase4/calc_building_demand.py           *)
(***************************************************************************)
MaxParcels == 2

(* a land_use cell: missing, an int, an integral float (v.0) or a string *)
LuNan == [t |-> "nan", v |-> 0, s |-> <<>>]

LuInt(n) == [t |-> "int", v |-> n, s |-> <<>>]

LuFloat(n) == [t |-> "float", v |-> n, s |-> <<>>]

LuStr(x) == [t |-> "str", v |-> 0, s |-> x]

py_str(x) ==
    IF x.t = "int" THEN IntStr(x.v)
    ELSE IF x.t = "float" THEN IntStr(x.v) \o <<".", "0">>
    ELSE x.s

(* the keyword tests with mix tried before resid *)
AssignMixFirst(landuse) ==
    IF landuse.t = "nan" THEN Fin(1, 2)
    ELSE LET s == strip(py_str(landuse))
             s_low == lower(s)
         IN  IF isdigit(s)
             THEN (IF startswith(s, <<"1">>) THEN I2F(1)
                   ELSE IF startswith(s, <<"2">>) THEN Fin(17, 20)
                   ELSE IF startswith(s, <<"3">>) THEN Fin(3, 5)
                   ELSE IF startswith(s, <<"4">>) THEN Fin(7, 10)
                   ELSE Fin(1, 2))
             ELSE IF contains(s_low, <<"m", "i", "x">>) THEN Fin(17, 20)
             ELSE IF contains(s_low, <<"r", "e", "s", "i", "d">>) THEN I2F(1)
             ELSE IF \/ contains(s_low, <<"c", "o", "m", "m">>)
                     \/ contains(s_low, <<"o", "f", "f", "i", "c", "e">>) THEN Fin(3, 5)
             ELSE IF contains(s_low, <<"i", "n", "d">>) THEN Fin(7, 10)
             ELSE Fin(1, 2)

(* D_time.py 84-108, calc_building_demand.py 72-98 *)
assign_d_type(landuse) ==
    IF landuse.t = "nan" THEN Fin(1, 2)
    ELSE LET s == strip(py_str(landuse))
             s_low == lower(s)
         IN  IF isdigit(s)
             THEN (IF startswith(s, <<"1">>) THEN I2F(1)
                   ELSE IF startswith(s, <<"2">>) THEN Fin(17, 20)
                   ELSE IF startswith(s, <<"3">>) THEN Fin(3, 5)
                   ELSE IF startswith(s, <<"4">>) THEN Fin(7, 10)
                   ELSE Fin(1, 2))
             ELSE IF contains(s_low, <<"r", "e", "s", "i", "d">>) THEN I2F(1)
             ELSE IF contains(s_low, <<"m", "i", "x">>) THEN Fin(17, 20)
             ELSE IF \/ contains(s_low, <<"c", "o", "m", "m">>)
                     \/ contains(s_low, <<"o", "f", "f", "i", "c", "e">>) THEN Fin(3, 5)
             ELSE IF contains(s_low, <<"i", "n", "d">>) THEN Fin(7, 10)
             ELSE Fin(1, 2)

(* min-max normalisation without the max > min guard *)
MinMaxUnguarded(x, col) == FDiv(FSub(x, SMin(col)), FSub(SMax(col), SMin(col)))

(* D_time.py 78-81, 117-120 : min-max normalisation with the max > min guard *)
MinMax(x, col) ==
    IF FGt(SMax(col), SMin(col))
    THEN FDiv(FSub(x, SMin(col)), FSub(SMax(col), SMin(col)))
    ELSE I2F(0)

(* D_time.py 74-120 on one year slice *)
DemandColumns(py) ==
    LET units == [i \in 1..Len(py) |-> fillna(py[i].units_res, I2F(0))]
        D_units_raw == [i \in 1..Len(py) |-> log1p(units[i])]
        D_units == [i \in 1..Len(py) |-> MinMax(D_units_raw[i], D_units_raw)]
        D_type == [i \in 1..Len(py) |-> assign_d_type(py[i].land_use)]
        D == [i \in 1..Len(py) |->
                FAdd(FMul(Fin(7, 10), D_units[i]), FMul(Fin(3, 10), D_type[i]))]
        D_log_raw == [i \in 1..Len(py) |-> log1p(FMul(D[i], I2F(5)))]
        D_log == [i \in 1..Len(py) |-> MinMax(D_log_raw[i], D_log_raw)]
    IN  [i \in 1..Len(py) |->
            [row |-> py[i].row, bbl |-> py[i].bbl, land_use |-> py[i].land_use,
             units_res |-> units[i],
             year |-> py[i].year, cell |-> py[i].cell, D_units |-> D_units[i],
             D_type |-> D_type[i], D |-> D[i], D_log |-> D_log[i]]]

(* sorted(x.unique()) *)
RECURSIVE SortedFloats(_)
SortedFloats(S) ==
    IF S = {} THEN <<>>
    ELSE LET m == CHOOSE x \in S : \A y \in S : ~FLt(y, x)
         IN  <<m>> \o SortedFloats(S \ {m})

(* the boundary file: two neighbourhood polygons; a centroid lies in the
   cell "a" (inside A), "b" (inside B) or "o" (inside no polygon) *)
nta == <<"A", "B">>

Cells == {"a", "b", "o"}

(* gpd.sjoin(..., how="left", predicate="within"): the NTAName of a point *)
sjoin(cell) == IF cell = "a" THEN "A" ELSE IF cell = "b" THEN "B" ELSE "NaN"

Matched(rows, name) == SelectSeq(rows, LAMBDA r : sjoin(r.cell) = name)

InYear(rows, y) == SelectSeq(rows, LAMBDA r : r.year = y)

Agg(name, rows) ==
    [NTAName |-> name, parcel_count |-> I2F(Len(NotNa(Column(rows, "bbl")))),
     D_mean |-> SMean(Column(rows, "D")), D_log_mean |-> SMean(Column(rows, "D_log"))]

(* D_time.py 159-167 : groupby(["NTAName", "year"]).agg(...) for one NTA *)
RECURSIVE AggByYear(_, _, _)
AggByYear(name, rows, ys) ==
    IF ys = <<>> THEN <<>>
    ELSE <<[year |-> ys[1]] @@ Agg(name, InYear(rows, ys[1]))>>
         \o AggByYear(name, rows, Tail(ys))

nta_d_by_year(joined, name) ==
    AggByYear(name, Matched(joined, name),
              SortedFloats({r.year : r \in Range(Matched(joined, name))}))

Unmatched(name) == [NTAName |-> name, parcel_count |-> NaN, D_mean |-> NaN, D_log_mean |-> NaN]

FillCounts(r) ==
    [r EXCEPT !.parcel_count = fillna(@, I2F(0)), !.D_mean = fillna(@, I2F(0)),
              !.D_log_mean = fillna(@, I2F(0))]

(* D_time.py 170-173 : nta.merge(nta_d_by_year, on="NTAName", how="left"), fillna *)
RECURSIVE MergeByYear(_, _)
MergeByYear(names, joined) ==
    IF names = <<>> THEN <<>>
    ELSE LET g == nta_d_by_year(joined, names[1])
             rows == IF g = <<>> THEN <<[year |-> NaN] @@ Unmatched(names[1])>> ELSE g
         IN  [i \in 1..Len(rows) |-> FillCounts(rows[i])] \o MergeByYear(Tail(names), joined)

(* calc_building_demand.py 149-163 : groupby("NTAName"), merge, fillna *)
RECURSIVE MergeSnapshot(_, _)
MergeSnapshot(names, joined) ==
    IF names = <<>> THEN <<>>
    ELSE LET m == Matched(joined, names[1])
         IN  <<FillCounts(IF m = <<>> THEN Unmatched(names[1]) ELSE Agg(names[1], m))>>
             \o MergeSnapshot(Tail(names), joined)

(* ---- inputs: the parcel GeoJSON read at D_time.py 47 ---- *)
DemandYears == {I2F(FirstYear), I2F(FirstYear + 1)}

ParcelVals ==
    [year : DemandYears,
     units_res : {NaN, I2F(0), I2F(1), I2F(3)},
     land_use : {LuNan, LuInt(1), LuInt(3)},
     cell : Cells,
     has_bbl : BOOLEAN]

ParcelTable(a) ==
    [i \in 1..Len(a) |->
        [row |-> i, bbl |-> IF a[i].has_bbl THEN I2F(i) ELSE NaN, year |-> a[i].year,
         units_res |-> a[i].units_res,
         land_use |-> a[i].land_use, cell |-> a[i].cell]]

Init4 ==
    /\ script4 \in {"D_time", "calc"}
    /\ \E n \in 1..MaxParcels : \E a \in [1..n -> ParcelVals] : pluto = ParcelTable(a)
    /\ years4 = <<>>
    /\ pluto_all = <<>>
    /\ nta_out = <<>>
    /\ pc4 = "start"
    /\ out4 = [parcel |-> <<>>, nta |-> <<>>, written |-> {}]
    /\ Idle1 /\ IdleT /\ Idle3 /\ Idle5 /\ Idle0 /\ FullSchema /\ Idle6 /\ Idle7 /\ Idle8

(* D_time.py 50-61 : KeyError when "year" or another required column is
   absent *)
DT_Start ==
    /\ script4 = "D_time" /\ pc4 = "start"
    /\ IF RequiredColumns \subseteq pluto_columns
       THEN /\ years4' = SortedFloats({pluto[i].year : i \in 1..Len(pluto)})
            /\ pc4' = "loop"
       ELSE /\ pc4' = "raised"
            /\ UNCHANGED years4
    /\ UNCHANGED <<script4, pluto, pluto_all, nta_out, out4, rest4>>

(* D_time.py 69-122 : one iteration of the year loop *)
DT_Year ==
    /\ script4 = "D_time" /\ pc4 = "loop" /\ years4 # <<>>
    /\ pluto_all' = pluto_all \o DemandColumns(InYear(pluto, years4[1]))
    /\ years4' = Tail(years4)
    /\ UNCHANGED <<script4, pluto, nta_out, pc4, out4, rest4>>

(* D_time.py 125-133 *)
DT_SaveParcel ==
    /\ script4 = "D_time" /\ pc4 = "loop" /\ years4 = <<>>
    /\ out4' = [out4 EXCEPT !.parcel = pluto_all, !.written = @ \cup {"parcel"}]
    /\ pc4' = "join"
    /\ UNCHANGED <<script4, pluto, years4, pluto_all, nta_out, rest4>>

(* D_time.py 137-173 *)
DT_Aggregate ==
    /\ script4 = "D_time" /\ pc4 = "join"
    /\ nta_out' = MergeByYear(nta, pluto_all)
    /\ pc4' = "save"
    /\ UNCHANGED <<script4, pluto, years4, pluto_all, out4, rest4>>

(* D_time.py 177-178 *)
DT_SaveNta ==
    /\ script4 = "D_time" /\ pc4 = "save"
    /\ out4' = [out4 EXCEPT !.nta = nta_out, !.written = @ \cup {"nta"}]
    /\ pc4' = "done"
    /\ UNCHANGED <<script4, pluto, years4, pluto_all, nta_out, rest4>>

(* calc_building_demand.py 46-57 : keep the latest year only when there is
   a year column, all parcels otherwise; KeyError when units_res, land_use
   or bbl is absent *)
CB_Start ==
    /\ script4 = "calc" /\ pc4 = "start"
    /\ pluto' =
           IF "year" \in pluto_columns THEN InYear(pluto, SMax(Column(pluto, "year")))
           ELSE pluto
    /\ pc4' =
           IF {"units_res", "land_use", "bbl"} \subseteq pluto_columns THEN "compute"
           ELSE "raised"
    /\ UNCHANGED <<script4, years4, pluto_all, nta_out, out4, rest4>>

(* calc_building_demand.py 62-111 *)
CB_Compute ==
    /\ script4 = "calc" /\ pc4 = "compute"
    /\ pluto_all' = DemandColumns(pluto)
    /\ pc4' = "parcel"
    /\ UNCHANGED <<script4, pluto, years4, nta_out, out4, rest4>>

(* calc_building_demand.py 115-117 *)
CB_SaveParcel ==
    /\ script4 = "calc" /\ pc4 = "parcel"
    /\ out4' = [out4 EXCEPT !.parcel = pluto_all, !.written = @ \cup {"parcel"}]
    /\ pc4' = "join"
    /\ UNCHANGED <<script4, pluto, years4, pluto_all, nta_out, rest4>>

(* calc_building_demand.py 123-163 *)
CB_Aggregate ==
    /\ script4 = "calc" /\ pc4 = "join"
    /\ nta_out' = MergeSnapshot(nta, pluto_all)
    /\ pc4' = "save"
    /\ UNCHANGED <<script4, pluto, years4, pluto_all, out4, rest4>>

(* calc_building_demand.py 167-168 *)
CB_SaveNta ==
    /\ script4 = "calc" /\ pc4 = "save"
    /\ out4' = [out4 EXCEPT !.nta = nta_out, !.written = @ \cup {"nta"}]
    /\ pc4' = "done"
    /\ UNCHANGED <<script4, pluto, years4, pluto_all, nta_out, rest4>>

Next4 ==
    \/ DT_Start \/ DT_Year \/ DT_SaveParcel \/ DT_Aggregate \/ DT_SaveNta
    \/ CB_Start \/ CB_Compute \/ CB_SaveParcel \/ CB_Aggregate \/ CB_SaveNta

SpecDemand == Init4 /\ [][Next4]_vars

(***************************************************************************)
(* assign_d_type as a function of the land_use cell alone.                 *)
(***************************************************************************)
MaxCode == 12

Keywords ==
    {<<"R", "e", "s", "i", "d">>, <<"m", "i", "x">>, <<"M", "I", "X", " ", "r", "e", "s", "i", "d">>,
     <<"c", "o", "m", "m">>, <<"O", "f", "f", "i", "c", "e">>, <<"i", "n", "d">>,
     <<"c", "o", "m", "m", " ", "i", "n", "d">>, <<"m", "i", "x", " ", "i", "n", "d">>,
     <<"p", "a", "r", "k">>, <<>>, <<" ">>, <<"1", "a">>, <<"-", "1">>,
     <<"O", "f", "f", "i", "c", "e", " ", "M", "i", "x">>, <<"W", "I", "N", "D", "s">>}

LandUseVals ==
    {LuNan}
    \cup {LuInt(n) : n \in 0..MaxCode}
    \cup {LuFloat(n) : n \in 0..MaxCode}
    \cup {LuStr(IntStr(n)) : n \in 0..MaxCode}
    \cup {LuStr(<<" ">> \o IntStr(n) \o <<" ">>) : n \in 0..MaxCode}
    \cup {LuStr(k) : k \in Keywords}

InitT ==
    /\ land_use_cell \in LandUseVals
    /\ d_type = <<>>
    /\ Idle1 /\ Idle4 /\ Idle3 /\ Idle5 /\ Idle0 /\ FullSchema /\ Idle6 /\ Idle7 /\ Idle8

(* D_time.py 110 : pluto_year["land_use"].apply(assign_d_type) on one cell *)
ApplyDType ==
    /\ d_type = <<>>
    /\ d_type' = <<assign_d_type(land_use_cell)>>
    /\ UNCHANGED <<land_use_cell, restT>>

NextT == ApplyDType

SpecDType == InitT /\ [][NextT]_vars

(***************************************************************************)
(* Properties of the demand index.                                         *)
(***************************************************************************)
Computed4 == pc4 \in {"join", "save", "done"}

InUnit(x) == IsFin(x) /\ FLe(I2F(0), x) /\ FLe(x, I2F(1))

Slice4(y) == {q \in Range(pluto_all) : q.year = y}

InputUnits(r) ==
    LET u == (CHOOSE q \in Range(pluto) : q.row = r.row).units_res
    IN  IF isna(u) THEN I2F(0) ELSE u

SetMin(S) == CHOOSE x \in S : \A y \in S : ~FLt(y, x)

SetMax(S) == CHOOSE x \in S : \A y \in S : ~FGt(y, x)

(* (x - min S) / (max S - min S), and 0 when S holds a single value *)
Rescaled(x, S) ==
    IF Cardinality(S) = 1 THEN I2F(0)
    ELSE FDiv(FSub(x, SetMin(S)), FSub(SetMax(S), SetMin(S)))

(* C5: in every year slice D_units and D_log are numbers in [0,1]; they are 0
   for the whole year when its units_res (resp. its D) are all equal; and
   each is the min-max rescaling over the parcels of the same year only. *)
C5_DemandInUnitInterval ==
    Computed4 =>
        \A r \in Range(pluto_all) :
            /\ InUnit(r.D_units) /\ InUnit(r.D_log)
            /\ (\A q \in Slice4(r.year) : InputUnits(q) = InputUnits(r)) => r.D_units = I2F(0)
            /\ (\A q \in Slice4(r.year) : q.D = r.D) => r.D_log = I2F(0)
            /\ r.D_units = Rescaled(log1p(InputUnits(r)),
                                    {log1p(InputUnits(q)) : q \in Slice4(r.year)})
            /\ r.D_log = Rescaled(log1p(FMul(I2F(5), r.D)),
                                  {log1p(FMul(I2F(5), q.D)) : q \in Slice4(r.year)})

C5_Witness ==
    /\ pc4 = "done" /\ script4 = "D_time"
    /\ \E r, q \in Range(pluto_all) :
          /\ r.row # q.row /\ r.year = q.year
          /\ InputUnits(r) = InputUnits(q) /\ isna(pluto[r.row].units_res)
          /\ r.D_units = I2F(0)
          /\ r.D_log = I2F(0) /\ q.D_log = I2F(1)

(* the first decimal digit of a non-negative code *)
RECURSIVE LeadingDigit(_)
LeadingDigit(n) == IF n < 10 THEN n ELSE LeadingDigit(n \div 10)

DigitScore(dg) ==
    IF dg = 1 THEN I2F(1) ELSE IF dg = 2 THEN Fin(17, 20) ELSE IF dg = 3 THEN Fin(3, 5)
    ELSE IF dg = 4 THEN Fin(7, 10) ELSE Fin(1, 2)

StrDigit(s) == (CHOOSE i \in 1..10 : Digits[i] = strip(s)[1]) - 1

(* C6: a numeric land_use code - an int, a decimal number such as 1.0 or a
   digit string - is scored by its leading digit (1 -> 1.0, 2 -> 0.85,
   3 -> 0.6, 4 -> 0.7, else 0.5); a missing land_use scores 0.5. *)
C6_NumericCodeByLeadingDigit ==
    d_type # <<>> =>
        /\ land_use_cell.t = "nan" => d_type[1] = Fin(1, 2)
        /\ land_use_cell.t \in {"int", "float"} => d_type[1] = DigitScore(LeadingDigit(land_use_cell.v))
        /\ (land_use_cell.t = "str" /\ isdigit(strip(land_use_cell.s))) =>
                d_type[1] = DigitScore(StrDigit(land_use_cell.s))

ParcelsIn(name, y) == {r \in Range(pluto_all) : sjoin(r.cell) = name /\ r.year = y}

ZeroRow(r) == r.parcel_count = I2F(0) /\ r.D_mean = I2F(0) /\ r.D_log_mean = I2F(0)

(* C7: the demand-by-neighbourhood output holds a row for every
   neighbourhood N and every analysis year Y, and that row is all zero when
   no parcel centroid falls inside N in year Y. *)
C7_RowForEveryNtaYear ==
    pc4 \in {"save", "done"} =>
        \A i \in 1..Len(nta) :
            \A y \in {r.year : r \in Range(pluto_all)} :
                \E j \in 1..Len(nta_out) :
                    /\ nta_out[j].NTAName = nta[i]
                    /\ script4 = "D_time" => nta_out[j].year = y
                    /\ ParcelsIn(nta[i], y) = {} => ZeroRow(nta_out[j])

(***************************************************************************)
(* Phase 3: eci_time.py (cumulative, per year) and eci_d.py (snapshot).    *)
(* Nodes lie on a line; the neighbourhood A covers the sites 0 and 1, B    *)
(* the site 3, and the site 6 lies outside every neighbourhood.            *)
(***************************************************************************)
MaxNodes == 3

NodeSites == {0, 1, 3, 6}

within(x) == IF x \in {0, 1} THEN "A" ELSE IF x = 3 THEN "B" ELSE "NaN"

(* eci_time.py 92 / eci_d.py 45 : gpd.sjoin(how="left", predicate="within") *)
sjoin_nodes(nodes) ==
    [i \in 1..Len(nodes) |->
        [x |-> nodes[i].x, year |-> nodes[i].year, site_id |-> nodes[i].site_id,
         NTAName |-> within(nodes[i].x)]]

MinOf(S) == CHOOSE m \in S : \A n \in S : m <= n

(* eci_time.py 95-98 / eci_d.py 49-54 : cKDTree.query(coords, k=2)[:, 1];
   with a single point the second neighbour does not exist and the
   distance is inf *)
nearest_neighbor_dist(joined, i) ==
    IF Len(joined) = 1 THEN Inf(1)
    ELSE I2F(MinOf({Abs(joined[i].x - joined[j].x) : j \in (1..Len(joined)) \ {i}}))

NearestColumn(joined) == [i \in 1..Len(joined) |-> nearest_neighbor_dist(joined, i)]

InNta(joined, name) == {i \in 1..Len(joined) : joined[i].NTAName = name}

RECURSIVE PickSeq(_, _)
PickSeq(col, I) ==
    IF I = {} THEN <<>>
    ELSE LET i == MinOf(I) IN <<col[i]>> \o PickSeq(col, I \ {i})

(* "count" of site_id: non-null cells only *)
CountIds(joined, I) == Cardinality({i \in I : joined[i].site_id # NaS})

(* infinities kept *)
KeepInf(a) == a

(* .replace([np.inf, -np.inf], np.nan) *)
replace_inf(a) == IF IsInf(a) THEN NaN ELSE a

(* eci without the fillna(0) *)
EciUnfilled(density, avg, city) == replace_inf(FDiv(density, FDiv(avg, city)))

(* eci_time.py 124-128 / eci_d.py 78-80 *)
eci_value(density, avg, city) == fillna(replace_inf(FDiv(density, FDiv(avg, city))), I2F(0))

(* eci_time.py 131-134 *)
eci_log_value(node_count, eci) ==
    IF FGt(node_count, I2F(0)) THEN log10(FAdd(eci, I2F(1))) ELSE I2F(0)

(* eci_time.py 101-122, eci_d.py 57-71 : groupby("NTAName").agg, left merge
   onto the boundary table, fillna; eci_d.py leaves avg_nearest_dist_m
   unfilled *)
SummaryRow(joined, poly, fill_avg) ==
    LET I == InNta(joined, poly.NTAName)
        dist == NearestColumn(joined)
        node_count == IF I = {} THEN fillna(NaN, I2F(0)) ELSE I2F(CountIds(joined, I))
        avg_raw == IF I = {} THEN NaN ELSE SMean(PickSeq(dist, I))
        avg == IF fill_avg THEN fillna(avg_raw, I2F(0)) ELSE avg_raw
        density == FDiv(node_count, poly.area_km2)
        city_avg_dist == SMean(dist)
    IN  [NTAName |-> poly.NTAName, area_km2 |-> poly.area_km2,
         node_count |-> node_count, avg_nearest_dist_m |-> avg,
         node_density_per_km2 |-> density,
         eci |-> eci_value(density, avg, city_avg_dist)]

(* eci_d.py 45-80 *)
EciSnapshot(nodes, polys) ==
    [p \in 1..Len(polys) |-> SummaryRow(sjoin_nodes(nodes), polys[p], FALSE)]

AddLogYear(r, y) ==
    [NTAName |-> r.NTAName, area_km2 |-> r.area_km2, node_count |-> r.node_count,
     avg_nearest_dist_m |-> r.avg_nearest_dist_m,
     node_density_per_km2 |-> r.node_density_per_km2, eci |-> r.eci,
     eci_log |-> eci_log_value(r.node_count, r.eci), year |-> y]

(* eci_time.py 86-137 : one pass of the year loop, nodes active up to y *)
EciYear(nodes, polys, y) ==
    LET linknyc_year == SelectSeq(nodes, LAMBDA n : n.year <= y)
    IN  [p \in 1..Len(polys) |->
            AddLogYear(SummaryRow(sjoin_nodes(linknyc_year), polys[p], TRUE), y)]

NodeVals == [x : NodeSites, year : {FirstYear, FirstYear + 1}, site_id : {<<"k">>, NaS}]

NtaTables ==
    {<<[NTAName |-> "A", area_km2 |-> a], [NTAName |-> "B", area_km2 |-> I2F(1)]>> :
        a \in {I2F(2), Fin(1, 2)}}

Init3 ==
    /\ script3 \in {"eci_time", "eci_d"}
    /\ \E n \in 1..MaxNodes : linknyc \in [1..n -> NodeVals]
    /\ nta_gdf \in NtaTables
    /\ years3 = <<>>
    /\ annual_results = <<>>
    /\ pc3 = "start"
    /\ out3 = [name |-> "", rows |-> <<>>]
    /\ Idle1 /\ Idle4 /\ IdleT /\ Idle5 /\ Idle0 /\ FullSchema /\ Idle6 /\ Idle7 /\ Idle8

RECURSIVE SortedInts(_)
SortedInts(S) == IF S = {} THEN <<>> ELSE <<MinOf(S)>> \o SortedInts(S \ {MinOf(S)})

(* eci_time.py 77 : years = sorted(linknyc['year'].unique()) *)
ET_Start ==
    /\ pc3 = "start" /\ script3 = "eci_time"
    /\ years3' = SortedInts({n.year : n \in Range(linknyc)})
    /\ pc3' = "loop"
    /\ UNCHANGED <<script3, linknyc, nta_gdf, annual_results, out3, rest3>>

(* eci_time.py 83-139 *)
ET_Year ==
    /\ pc3 = "loop" /\ years3 # <<>>
    /\ annual_results' = annual_results \o EciYear(linknyc, nta_gdf, Head(years3))
    /\ years3' = Tail(years3)
    /\ UNCHANGED <<script3, linknyc, nta_gdf, pc3, out3, rest3>>

(* eci_time.py 142-147 *)
ET_Save ==
    /\ pc3 = "loop" /\ years3 = <<>>
    /\ out3' = [name |-> "linknyc_eci_by_nta_all_years.geojson", rows |-> annual_results]
    /\ pc3' = "done"
    /\ UNCHANGED <<script3, linknyc, nta_gdf, years3, annual_results, rest3>>

(* eci_d.py 45-80 *)
ED_Compute ==
    /\ pc3 = "start" /\ script3 = "eci_d"
    /\ annual_results' = EciSnapshot(linknyc, nta_gdf)
    /\ pc3' = "save"
    /\ UNCHANGED <<script3, linknyc, nta_gdf, years3, out3, rest3>>

(* eci_d.py 83-90 *)
ED_Save ==
    /\ pc3 = "save"
    /\ out3' = [name |-> "linknyc_eci_by_nta.geojson", rows |-> annual_results]
    /\ pc3' = "done"
    /\ UNCHANGED <<script3, linknyc, nta_gdf, years3, annual_results, rest3>>

Next3 == ET_Start \/ ET_Year \/ ET_Save \/ ED_Compute \/ ED_Save

SpecEci == Init3 /\ [][Next3]_vars

(***************************************************************************)
(* Properties of the density index.                                        *)
(***************************************************************************)
(* C8: a row of the yearly density output with node_count = 0 has eci = 0
   and eci_log = 0 exactly; a row with node_count > 0 has
   eci_log = log10(eci + 1).  (The snapshot output has no eci_log column;
   its rows with node_count = 0 have eci = 0.) *)
C8_ZeroNodesZeroEci ==
    \A r \in Range(annual_results) \cup Range(out3.rows) :
        /\ r.node_count = I2F(0) => r.eci = I2F(0)
        /\ script3 = "eci_time" =>
              /\ r.node_count = I2F(0) => r.eci_log = I2F(0)
              /\ FGt(r.node_count, I2F(0)) => r.eci_log = log10(FAdd(r.eci, I2F(1)))

C8_Witness ==
    /\ pc3 = "done" /\ script3 = "eci_time"
    /\ \E r, q \in Range(out3.rows) :
          /\ r.year = q.year
          /\ r.node_count = I2F(0) /\ r.eci_log = I2F(0)
          /\ FGt(q.node_count, I2F(0)) /\ FGt(q.eci, I2F(0)) /\ FGt(q.eci_log, I2F(0))

(* the points active for a row: all of them in the snapshot, those of the
   row's year or earlier in the yearly output *)
ActiveFor(r) ==
    IF script3 = "eci_time" THEN SelectSeq(linknyc, LAMBDA n : n.year <= r.year) ELSE linknyc

CityAvgFor(r) == SMean(NearestColumn(ActiveFor(r)))

RawRatio(r) == FDiv(r.node_density_per_km2, FDiv(r.avg_nearest_dist_m, CityAvgFor(r)))

(* C9: for every active point set (a single point, coincident points and
   points outside every neighbourhood included) every neighbourhood row has
   a finite eci >= 0, and eci = 0 wherever node_density_per_km2 /
   (avg_nearest_dist_m / city_avg_dist) is undefined or infinite; this holds
   in particular of the rows written to the output files. *)
C9_EciFiniteNonNegative ==
    \A r \in Range(annual_results) \cup Range(out3.rows) :
        /\ IsFin(r.eci) /\ FLe(I2F(0), r.eci)
        /\ ~IsFin(RawRatio(r)) => r.eci = I2F(0)
        /\ IsFin(RawRatio(r)) => r.eci = RawRatio(r)

C9_Witness ==
    /\ pc3 = "done" /\ script3 = "eci_d"
    /\ \E i \in 1..Len(linknyc) : within(linknyc[i].x) = "NaN"
    /\ \E r \in Range(out3.rows) :
          /\ FGt(r.node_count, I2F(1))
          /\ r.avg_nearest_dist_m = I2F(0)
          /\ IsInf(RawRatio(r))
          /\ r.eci = I2F(0)

(***************************************************************************)
(* Phase 5: forecast.py, from reading its inputs to the concatenation of   *)
(* the yearly composite tables.                                            *)
(***************************************************************************)
MaxLots == 2

(* forecast.py 93-97 : node_count.fillna(0); area_km2.replace(0, nan).fillna(1.0) *)
EciCore(e) ==
    [NTAName |-> e.NTAName,
     node_count |-> fillna(e.node_count, I2F(0)),
     area_km2 |-> fillna(IF e.area_km2 = I2F(0) THEN NaN ELSE e.area_km2, I2F(1)),
     eci |-> e.eci]

(* forecast.py 116 : pluto_nta.groupby("NTAName").size() *)
resource_density(lots, name) ==
    Cardinality({i \in 1..Len(lots) : sjoin(lots[i].cell) = name})

(* ECS / denom without the guards *)
CalcEmciRawUnguarded(erp, ecs, dd) ==
    FDiv(ecs, FMul(erp, FAdd(I2F(1), FMul(Fin(1, 2), dd))))

(* the guards returning a missing value instead of 0.0 *)
CalcEmciRawNull(erp, ecs, dd) ==
    IF FLe(erp, I2F(0)) \/ isna(erp) THEN NaN
    ELSE LET denom == FMul(erp, FAdd(I2F(1), FMul(Fin(1, 2), dd)))
         IN  IF FEq(denom, I2F(0)) \/ isna(denom) THEN NaN
             ELSE FDiv(ecs, denom)

(* forecast.py 140-147 *)
calc_emci_raw(erp, ecs, dd) ==
    IF FLe(erp, I2F(0)) \/ isna(erp) THEN I2F(0)
    ELSE LET denom == FMul(erp, FAdd(I2F(1), FMul(Fin(1, 2), dd)))
         IN  IF FEq(denom, I2F(0)) \/ isna(denom) THEN I2F(0)
             ELSE FDiv(ecs, denom)

(* forecast.py 153-156 *)
normalize_series(x, col) ==
    IF FEq(SMax(col), SMin(col)) THEN I2F(0)
    ELSE FDiv(FSub(x, SMin(col)), FSub(SMax(col), SMin(col)))

(* forecast.py 119-123 : left merges on NTAName; one row per matching row
   of the demand table, a row with D missing when there is none *)
RECURSIVE MergeDemand(_, _)
MergeDemand(es, dt) ==
    IF es = <<>> THEN <<>>
    ELSE LET m == SelectSeq(dt, LAMBDA r : r.NTAName = Head(es).NTAName)
             rows == IF m = <<>> THEN <<[e |-> Head(es), D |-> NaN]>>
                     ELSE [i \in 1..Len(m) |-> [e |-> Head(es), D |-> m[i].D]]
         IN  rows \o MergeDemand(Tail(es), dt)

(* forecast.py 126-137 *)
Components(mr, lots) ==
    LET rc_raw == resource_density(lots, mr.e.NTAName)
        resource_count == IF rc_raw = 0 THEN fillna(NaN, I2F(0)) ELSE I2F(rc_raw)
        dd == fillna(mr.D, I2F(0))
        building_density == FDiv(mr.e.node_count, mr.e.area_km2)
        UpdateIndex == I2F(1)
        ERP == FDiv(FMul(UpdateIndex, building_density), FAdd(resource_count, I2F(1)))
        ECS == FMul(mr.e.eci, FDiv(resource_count, FAdd(building_density, I2F(1))))
        EMCI_raw == calc_emci_raw(ERP, ECS, dd)
    IN  [NTAName |-> mr.e.NTAName, node_count |-> mr.e.node_count,
         area_km2 |-> mr.e.area_km2, eci |-> mr.e.eci, D |-> dd,
         resource_count |-> resource_count, building_density |-> building_density,
         UpdateIndex |-> UpdateIndex, ERP |-> ERP, ECS |-> ECS,
         EMCI_raw |-> EMCI_raw, EMCI |-> log1p(EMCI_raw)]

(* the demand rows of a neighbourhood taken one per analysis year, in file
   order, as a join on name and year would do *)
DemandOfYear(dt, yr) ==
    LET nth(i) == Cardinality({j \in 1..i : dt[j].NTAName = dt[i].NTAName})
        keep == {i \in 1..Len(dt) : I2F(FirstYear + nth(i) - 1) = yr}
    IN  PickSeq(dt, keep)

MergedYearJoinOnYear(es, dt, lots, yr) ==
    LET pluto_y == SelectSeq(lots, LAMBDA r : r.year = yr)
        mg == MergeDemand(es, DemandOfYear(dt, yr))
        c == [i \in 1..Len(mg) |-> Components(mg[i], pluto_y)]
    IN  [i \in 1..Len(c) |->
            [NTAName |-> c[i].NTAName, node_count |-> c[i].node_count,
             area_km2 |-> c[i].area_km2, eci |-> c[i].eci, D |-> c[i].D,
             resource_count |-> c[i].resource_count,
             building_density |-> c[i].building_density,
             UpdateIndex |-> c[i].UpdateIndex, ERP |-> c[i].ERP, ECS |-> c[i].ECS,
             EMCI_raw |-> c[i].EMCI_raw, EMCI |-> c[i].EMCI,
             ERP_norm |-> normalize_series(c[i].ERP, Column(c, "ERP")),
             ECS_norm |-> normalize_series(c[i].ECS, Column(c, "ECS")),
             EMCI_norm |-> normalize_series(c[i].EMCI, Column(c, "EMCI")),
             year |-> yr]]

(* forecast.py 105-161 : the composite table of one year *)
MergedYear(es, dt, lots, yr) ==
    LET pluto_y == SelectSeq(lots, LAMBDA r : r.year = yr)
        mg == MergeDemand(es, dt)
        c == [i \in 1..Len(mg) |-> Components(mg[i], pluto_y)]
    IN  [i \in 1..Len(c) |->
            [NTAName |-> c[i].NTAName, node_count |-> c[i].node_count,
             area_km2 |-> c[i].area_km2, eci |-> c[i].eci, D |-> c[i].D,
             resource_count |-> c[i].resource_count,
             building_density |-> c[i].building_density,
             UpdateIndex |-> c[i].UpdateIndex, ERP |-> c[i].ERP, ECS |-> c[i].ECS,
             EMCI_raw |-> c[i].EMCI_raw, EMCI |-> c[i].EMCI,
             ERP_norm |-> normalize_series(c[i].ERP, Column(c, "ERP")),
             ECS_norm |-> normalize_series(c[i].ECS, Column(c, "ECS")),
             EMCI_norm |-> normalize_series(c[i].EMCI, Column(c, "EMCI")),
             year |-> yr]]

(* the density snapshot as read from linknyc_eci_by_nta.geojson *)
EciFiles ==
    {<<[NTAName |-> "A", node_count |-> n, area_km2 |-> a, eci |-> e], b>> :
        n \in {NaN, I2F(0), I2F(2)}, a \in {I2F(0), I2F(2)}, e \in {I2F(0), I2F(3)},
        b \in {[NTAName |-> "B", node_count |-> I2F(1), area_km2 |-> Fin(1, 2), eci |-> I2F(1)],
               [NTAName |-> "B", node_count |-> I2F(0), area_km2 |-> I2F(1), eci |-> I2F(0)]}}

(* D_mean columns of building_demand_index_by_nta.csv: one row per
   neighbourhood (calc_building_demand.py) or one per neighbourhood and
   year (D_time.py); D = -2 makes 1 + 0.5 D vanish *)
DemandOfA == {<<>>, <<I2F(0)>>, <<Fin(1, 2)>>, <<I2F(-2)>>, <<I2F(0), Fin(1, 2)>>}

DemandOfB == {<<>>, <<Fin(1, 2)>>}

DemandFile(da, db) ==
    [i \in 1..Len(da) |-> [NTAName |-> "A", D_mean |-> da[i]]]
    \o [i \in 1..Len(db) |-> [NTAName |-> "B", D_mean |-> db[i]]]

LotVals == [year : {I2F(FirstYear), I2F(FirstYear + 1)}, cell : Cells]

Init5 ==
    /\ eci_summary \in EciFiles
    /\ \E da \in DemandOfA, db \in DemandOfB : d_nta = DemandFile(da, db)
    /\ \E n \in 1..MaxLots : pluto_lots \in [1..n -> LotVals]
    /\ years5 = <<>>
    /\ all_years_results = <<>>
    /\ final_df = <<>>
    /\ pc5 = "start"
    /\ emci_csv = <<>>
    /\ features = <<>>
    /\ growth_df = <<>>
    /\ Idle1 /\ Idle4 /\ IdleT /\ Idle3 /\ Idle0 /\ FullSchema /\ Idle6 /\ Idle7 /\ Idle8

(* forecast.py 82-97 *)
F_Start ==
    /\ pc5 = "start"
    /\ IF "year" \in pluto_columns
       THEN /\ years5' = SortedFloats({r.year : r \in Range(pluto_lots)})
            /\ d_nta' =
                  [i \in 1..Len(d_nta) |-> [NTAName |-> d_nta[i].NTAName, D |-> d_nta[i].D_mean]]
            /\ eci_summary' = [i \in 1..Len(eci_summary) |-> EciCore(eci_summary[i])]
            /\ pc5' = "loop"
       ELSE /\ pc5' = "raised"
            /\ UNCHANGED <<years5, d_nta, eci_summary>>
    /\ UNCHANGED <<pluto_lots, all_years_results, final_df, emci_csv, features, growth_df, rest5>>

(* forecast.py 103-163 *)
F_Year ==
    /\ pc5 = "loop" /\ years5 # <<>>
    /\ all_years_results' =
          Append(all_years_results, MergedYear(eci_summary, d_nta, pluto_lots, Head(years5)))
    /\ years5' = Tail(years5)
    /\ UNCHANGED <<eci_summary, d_nta, pluto_lots, final_df, pc5,
                   emci_csv, features, growth_df, rest5>>

RECURSIVE concat(_)
concat(ss) == IF ss = <<>> THEN <<>> ELSE Head(ss) \o concat(Tail(ss))

(* forecast.py 166 *)
F_Concat ==
    /\ pc5 = "loop" /\ years5 = <<>>
    /\ final_df' = concat(all_years_results)
    /\ pc5' = "forecast"
    /\ UNCHANGED <<eci_summary, d_nta, pluto_lots, years5, all_years_results,
                   emci_csv, features, growth_df, rest5>>

(* forecast.py 171 : pred_years = [2026, ..., 2030] *)
FirstPredYear == 2026

LastPredYear == 2030

pred_years == [i \in 1..(LastPredYear - FirstPredYear + 1) |-> I2F(FirstPredYear + i - 1)]

(* the rows of a frame with a given NTAName, in frame order *)
GroupOf(t, name) == SelectSeq(t, LAMBDA r : r.NTAName = name)

(* the group keys of groupby("NTAName"), sorted *)
NtaKeys(t) == SelectSeq(nta, LAMBDA name : GroupOf(t, name) # <<>>)

(* group.sort_values("year"), rows of equal year keeping their order *)
RECURSIVE SortByYear(_)
SortByYear(g) ==
    IF g = <<>> THEN <<>>
    ELSE LET y == SMin(Column(g, "year"))
         IN  SelectSeq(g, LAMBDA r : r.year = y) \o SortByYear(SelectSeq(g, LAMBDA r : r.year # y))

(* forecast.py 184-185 : np.polyfit(x, y, 1), the least-squares line, as
   [slope, value at x0] with the years counted from x0 = x[1] *)
polyfit(x, y) ==
    LET n == I2F(Len(x))
        xc == [i \in 1..Len(x) |-> FSub(x[i], x[1])]
        Sx == FoldSum(xc)
        Sy == FoldSum(y)
        Sxx == FoldSum([i \in 1..Len(x) |-> FMul(xc[i], xc[i])])
        Sxy == FoldSum([i \in 1..Len(x) |-> FMul(xc[i], y[i])])
        slope == FDiv(FSub(FMul(n, Sxy), FMul(Sx, Sy)), FSub(FMul(n, Sxx), FMul(Sx, Sx)))
    IN  [slope |-> slope, at0 |-> FDiv(FSub(Sy, FMul(slope, Sx)), n), x0 |-> x[1]]

(* forecast.py 189 : trend_func(y_future) *)
trend_func(coef, f) == FAdd(coef.at0, FMul(coef.slope, FSub(f, coef.x0)))

(* Python max(y_pred, 0): 0 only when 0 > y_pred *)
py_max0(v) == IF FGt(I2F(0), v) THEN I2F(0) ELSE v

(* the prediction without the clamp at 0 *)
Unclamped(v) == v

(* forecast.py 192 : max(y_pred, 0) *)
clamp_pred(v) == py_max0(v)

WithForecast(row, f, v) ==
    [NTAName |-> row.NTAName, node_count |-> row.node_count, area_km2 |-> row.area_km2,
     eci |-> row.eci, D |-> row.D, resource_count |-> row.resource_count,
     building_density |-> row.building_density, UpdateIndex |-> row.UpdateIndex,
     ERP |-> row.ERP, ECS |-> row.ECS, EMCI_raw |-> row.EMCI_raw,
     EMCI |-> v, ERP_norm |-> row.ERP_norm, ECS_norm |-> row.ECS_norm,
     EMCI_norm |-> NaN, year |-> f]

(* every neighbourhood gets forecast rows, whatever its number of years *)
PredictAlways(t, name) ==
    LET group_sorted == SortByYear(GroupOf(t, name))
        coef == polyfit(Column(group_sorted, "year"), Column(group_sorted, "EMCI"))
    IN  [i \in 1..Len(pred_years) |->
            WithForecast(group_sorted[Len(group_sorted)], pred_years[i],
                         clamp_pred(trend_func(coef, pred_years[i])))]

(* forecast.py 175-194 : the forecast rows of one neighbourhood *)
Predict(t, name) ==
    LET group_sorted == SortByYear(GroupOf(t, name))
        coef == polyfit(Column(group_sorted, "year"), Column(group_sorted, "EMCI"))
    IN  IF Cardinality(Range(Column(group_sorted, "year"))) < 2 THEN <<>>
        ELSE [i \in 1..Len(pred_years) |->
                WithForecast(group_sorted[Len(group_sorted)], pred_years[i],
                             clamp_pred(trend_func(coef, pred_years[i])))]

(* forecast.py 175-198 *)
predictions(t) == concat([k \in 1..Len(NtaKeys(t)) |-> Predict(t, NtaKeys(t)[k])])

WithNorm(row, v) ==
    [NTAName |-> row.NTAName, node_count |-> row.node_count, area_km2 |-> row.area_km2,
     eci |-> row.eci, D |-> row.D, resource_count |-> row.resource_count,
     building_density |-> row.building_density, UpdateIndex |-> row.UpdateIndex,
     ERP |-> row.ERP, ECS |-> row.ECS, EMCI_raw |-> row.EMCI_raw,
     EMCI |-> row.EMCI, ERP_norm |-> row.ERP_norm, ECS_norm |-> row.ECS_norm,
     EMCI_norm |-> v, year |-> row.year]

(* EMCI divided by the maximum of its year *)
NormalizeByMax(x, col) == FDiv(x, SMax(col))

(* forecast.py 208-210 : no guard for max = min *)
normalize_emci(x, col) == FDiv(FSub(x, SMin(col)), FSub(SMax(col), SMin(col)))

(* forecast.py 212 : final_df.groupby("year").apply(normalize_emci) *)
NormalizedByYear(t) ==
    LET ys == SortedFloats(Range(Column(t, "year")))
        grp(y) == SelectSeq(t, LAMBDA r : r.year = y)
    IN  concat([k \in 1..Len(ys) |->
                  [i \in 1..Len(grp(ys[k])) |->
                      WithNorm(grp(ys[k])[i],
                               normalize_emci(grp(ys[k])[i].EMCI, Column(grp(ys[k]), "EMCI")))]])

(* forecast.py 240-297 : one map feature per row with a non-null EMCI_norm
   whose neighbourhood has a geometry *)
MapFeatures(t) ==
    LET ys == SortedFloats(Range(Column(t, "year")))
        shown(y) == SelectSeq(t, LAMBDA r : r.year = y /\ ~isna(r.EMCI_norm)
                                             /\ r.NTAName \in Range(nta))
    IN  concat([k \in 1..Len(ys) |->
                  [i \in 1..Len(shown(ys[k])) |->
                      [NTAName |-> shown(ys[k])[i].NTAName, time |-> ys[k],
                       value |-> shown(ys[k])[i].EMCI_norm, EMCI |-> shown(ys[k])[i].EMCI]]])

(* forecast.py 378-381 *)
annual_growth(g) ==
    LET e == Column(SortByYear(g), "EMCI")
    IN  FDiv(FSub(e[Len(e)], e[1]), FSub(SMax(Column(g, "year")), SMin(Column(g, "year"))))

GrowthTable(t) ==
    [k \in 1..Len(NtaKeys(t)) |->
        [NTAName |-> NtaKeys(t)[k], annual_growth |-> annual_growth(GroupOf(t, NtaKeys(t)[k]))]]

(* forecast.py 171-198 *)
F_Forecast ==
    /\ pc5 = "forecast"
    /\ final_df' = final_df \o predictions(final_df)
    /\ pc5' = "save"
    /\ UNCHANGED <<eci_summary, d_nta, pluto_lots, years5, all_years_results,
                   emci_csv, features, growth_df, rest5>>

(* forecast.py 201 *)
F_Save ==
    /\ pc5 = "save"
    /\ emci_csv' = final_df
    /\ pc5' = "normalize"
    /\ UNCHANGED <<eci_summary, d_nta, pluto_lots, years5, all_years_results, final_df,
                   features, growth_df, rest5>>

(* forecast.py 208-212 *)
F_Normalize ==
    /\ pc5 = "normalize"
    /\ final_df' = NormalizedByYear(final_df)
    /\ pc5' = "map"
    /\ UNCHANGED <<eci_summary, d_nta, pluto_lots, years5, all_years_results,
                   emci_csv, features, growth_df, rest5>>

(* forecast.py 226-299, 371 *)
F_Map ==
    /\ pc5 = "map"
    /\ features' = MapFeatures(final_df)
    /\ pc5' = "growth"
    /\ UNCHANGED <<eci_summary, d_nta, pluto_lots, years5, all_years_results, final_df,
                   emci_csv, growth_df, rest5>>

(* forecast.py 378-381 *)
F_Growth ==
    /\ pc5 = "growth"
    /\ growth_df' = GrowthTable(final_df)
    /\ pc5' = "done"
    /\ UNCHANGED <<eci_summary, d_nta, pluto_lots, years5, all_years_results, final_df,
                   emci_csv, features, rest5>>

Next5 ==
    \/ F_Start \/ F_Year \/ F_Concat
    \/ F_Forecast \/ F_Save \/ F_Normalize \/ F_Map \/ F_Growth

SpecEmci == Init5 /\ [][Next5]_vars

(***************************************************************************)
(* Properties of the composite index.                                      *)
(***************************************************************************)
ObservedYears == {r.year : r \in Range(pluto_lots)}

HistoricalRows ==
    {r \in Range(concat(all_years_results)) \cup Range(final_df) : r.year \in ObservedYears}

Denominator(r) == FMul(r.ERP, FAdd(I2F(1), FMul(Fin(1, 2), r.D)))

(* C10: in every neighbourhood-year row computed for an observed year,
   building_density = node_count / area_km2,
   ERP = UpdateIndex * building_density / (resource_count + 1) with
   UpdateIndex = 1.0, ECS = eci * resource_count / (building_density + 1),
   EMCI_raw = ECS / (ERP * (1 + 0.5 D)) when ERP > 0 and is 0 when ERP <= 0,
   ERP is undefined or the denominator is 0 or undefined, and
   EMCI = log1p(EMCI_raw). *)
C10_CompositeFormulas ==
    \A r \in HistoricalRows :
        /\ r.UpdateIndex = I2F(1)
        /\ r.building_density = FDiv(r.node_count, r.area_km2)
        /\ r.ERP = FDiv(FMul(r.UpdateIndex, r.building_density), FAdd(r.resource_count, I2F(1)))
        /\ r.ECS = FDiv(FMul(r.eci, r.resource_count), FAdd(r.building_density, I2F(1)))
        /\ r.EMCI_raw =
              IF FGt(r.ERP, I2F(0)) /\ IsFin(Denominator(r)) /\ Denominator(r) # I2F(0)
              THEN FDiv(r.ECS, Denominator(r))
              ELSE I2F(0)
        /\ r.EMCI = log1p(r.EMCI_raw)

C10_Witness ==
    /\ pc5 = "forecast"
    /\ \E r, q \in Range(final_df) :
          /\ r.year = q.year
          /\ FGt(r.ERP, I2F(0)) /\ FGt(r.EMCI_raw, I2F(0)) /\ FGt(r.EMCI, I2F(0))
          /\ r.EMCI_raw = FDiv(r.ECS, Denominator(r))
          /\ q.ERP = I2F(0) /\ FGt(q.ECS, I2F(0)) /\ q.EMCI_raw = I2F(0) /\ q.EMCI = I2F(0)

(***************************************************************************)
(* Properties of the normalisation and of the forecast.                    *)
(***************************************************************************)
YearRows(t, y) == SelectSeq(t, LAMBDA r : r.year = y)

NamesWithEmci(t, y) == {r.NTAName : r \in {q \in Range(YearRows(t, y)) : ~isna(q.EMCI)}}

EmciValues(t, y) == {r.EMCI : r \in {q \in Range(YearRows(t, y)) : ~isna(q.EMCI)}}

NormSpansUnit(t, y) ==
    /\ SMin(Column(YearRows(t, y), "EMCI_norm")) = I2F(0)
    /\ SMax(Column(YearRows(t, y), "EMCI_norm")) = I2F(1)
    /\ \A r \in Range(YearRows(t, y)) : InUnit(r.EMCI_norm)

(* C11 as stated: in every observed year in which more than one
   neighbourhood has a non-null EMCI, the EMCI_norm of that year has minimum
   0 and maximum 1 and lies in [0,1], in the table written to CSV and in the
   table the map is built from. *)
C11_NormSpansUnitInterval ==
    \A y \in ObservedYears :
        /\ Cardinality(NamesWithEmci(emci_csv, y)) > 1 => NormSpansUnit(emci_csv, y)
        /\ Cardinality(NamesWithEmci(final_df, y)) > 1 => NormSpansUnit(final_df, y)

(* C11 amended: in every observed year in which the non-null EMCI of the
   neighbourhoods take at least two distinct values, the EMCI_norm of that
   year has minimum 0 and maximum 1 and lies in [0,1], in the table written
   to CSV and in the table the map is built from. *)
C11_NormSpansUnitWhenDistinct ==
    \A y \in ObservedYears :
        /\ Cardinality(EmciValues(emci_csv, y)) > 1 => NormSpansUnit(emci_csv, y)
        /\ Cardinality(EmciValues(final_df, y)) > 1 => NormSpansUnit(final_df, y)

C11_Witness ==
    /\ pc5 = "done"
    /\ \E y \in ObservedYears :
          /\ \E r, q \in Range(YearRows(final_df, y)) :
                /\ r.NTAName # q.NTAName
                /\ FGt(r.EMCI, q.EMCI) /\ FGt(q.EMCI, I2F(0))
                /\ r.EMCI_norm = I2F(1) /\ q.EMCI_norm = I2F(0)
          /\ NormSpansUnit(emci_csv, y)

Forecasted == pc5 \in {"save", "normalize", "map", "growth", "done"}

IsForecastRow(r) == r.year \in Range(pred_years)

(* C12: at every point of the run after forecasting, in the table written
   to CSV and in the table the map is built from, every forecast row
   (2026..2030) has a null EMCI_norm and every historical row is the row
   computed for its observed year, EMCI_norm included; the map shows no
   forecast neighbourhood. *)
C12_ForecastRowsStayUnnormalized ==
    Forecasted =>
        /\ \A r \in Range(emci_csv) \cup Range(final_df) :
              /\ IsForecastRow(r) => isna(r.EMCI_norm)
              /\ ~IsForecastRow(r) => r \in Range(concat(all_years_results))
        /\ \A f \in Range(features) : f.time \notin Range(pred_years)

(* the historical rows of a neighbourhood *)
Observed(name) == GroupOf(concat(all_years_results), name)

ForecastRowsOf(t, name) == {r \in Range(t) : r.NTAName = name /\ IsForecastRow(r)}

Max0(v) == IF FLt(v, I2F(0)) THEN I2F(0) ELSE v

Pairs(n) == {p \in (1..n) \X (1..n) : p[1] < p[2]}

SumOverPairs(h, P, c1, c2) ==
    LET ps == SetToSeq(P)
    IN  FoldSum([k \in 1..Len(ps) |->
                    FMul(FSub(h[ps[k][1]][c1], h[ps[k][2]][c1]),
                         FSub(h[ps[k][1]][c2], h[ps[k][2]][c2]))])

(* slope of the least-squares line: sum over pairs of dx dy / sum of dx^2 *)
LsqSlope(h) ==
    FDiv(SumOverPairs(h, Pairs(Len(h)), "year", "EMCI"),
         SumOverPairs(h, Pairs(Len(h)), "year", "year"))

(* the least-squares line at f: the mean of y_i + slope (f - x_i) *)
LsqAt(h, f) ==
    FDiv(FoldSum([i \in 1..Len(h) |-> FAdd(h[i].EMCI, FMul(LsqSlope(h), FSub(f, h[i].year)))]),
         I2F(Len(h)))

TwoPointLine(p, q, f) ==
    FAdd(p.EMCI, FMul(FDiv(FSub(q.EMCI, p.EMCI), FSub(q.year, p.year)), FSub(f, p.year)))

(* C13: a neighbourhood with exactly two historical points (year1, v1),
   (year2, v2), year1 # year2, gets for every f in 2026..2030 the forecast
   max(0, v1 + (v2 - v1) / (year2 - year1) * (f - year1)); every forecast
   EMCI is the least-squares line of EMCI against year at f, clamped below
   at 0, and is never negative. *)
C13_ForecastIsClampedLeastSquares ==
    \A i \in 1..Len(nta) :
        \A r \in ForecastRowsOf(emci_csv, nta[i]) \cup ForecastRowsOf(final_df, nta[i]) :
            LET h == Observed(nta[i])
            IN  /\ r.EMCI = Max0(LsqAt(h, r.year))
                /\ FLe(I2F(0), r.EMCI)
                /\ (Len(h) = 2 /\ h[1].year # h[2].year) =>
                        r.EMCI = Max0(TwoPointLine(h[1], h[2], r.year))

C13_Witness ==
    /\ pc5 = "done"
    /\ \E r, q \in Range(final_df) :
          /\ IsForecastRow(r) /\ IsForecastRow(q)
          /\ Len(Observed(r.NTAName)) = 2 /\ Len(Observed(q.NTAName)) = 2
          /\ FGt(r.EMCI, Observed(r.NTAName)[2].EMCI)
          /\ FGt(Observed(q.NTAName)[1].EMCI, Observed(q.NTAName)[2].EMCI)
          /\ q.EMCI = I2F(0)

CsvWritten == pc5 \in {"normalize", "map", "growth", "done"}

ObservedYearsOf(name) == Range(Column(Observed(name), "year"))

RowCount(t, name, y) == Cardinality({j \in 1..Len(t) : t[j].NTAName = name /\ t[j].year = y})

(* C14: a neighbourhood has forecast rows iff it has at least two distinct
   observed years; with fewer it has no row for any year of 2026..2030, and
   a forecast neighbourhood has exactly one row for each of these years. *)
C14_ForecastIffTwoObservedYears ==
    Forecasted =>
        \A i \in 1..Len(nta) :
            \A f \in Range(pred_years) :
                /\ CsvWritten => RowCount(emci_csv, nta[i], f) = RowCount(final_df, nta[i], f)
                /\ RowCount(final_df, nta[i], f) =
                      IF Cardinality(ObservedYearsOf(nta[i])) >= 2 THEN 1 ELSE 0

C14_Witness ==
    /\ pc5 = "done"
    /\ Cardinality(ObservedYearsOf("A")) = 2
    /\ Len(Observed("A")) > 2
    /\ \A f \in Range(pred_years) : RowCount(emci_csv, "A", f) = 1

ObservedGrowth(name) ==
    LET h == SortByYear(Observed(name))
    IN  FDiv(FSub(h[Len(h)].EMCI, h[1].EMCI), FSub(h[Len(h)].year, h[1].year))

(* C15: the annual growth rate reported for a neighbourhood is (EMCI at its
   last observed year - EMCI at its first observed year) / (last observed
   year - first observed year), the observed years being the historical
   ones: forecast rows do not enter. *)
C15_GrowthOverObservedYears ==
    pc5 = "done" =>
        \A k \in 1..Len(growth_df) :
            growth_df[k].annual_growth = ObservedGrowth(growth_df[k].NTAName)

UniqueKeys(t) ==
    \A i, j \in 1..Len(t) :
        (t[i].NTAName = t[j].NTAName /\ t[i].year = t[j].year) => i = j

(* C16: the composite table holds at most one row per (NTAName, year),
   whether the demand file it joins on holds one row per neighbourhood (the
   single-year demand script) or one row per neighbourhood and year (the
   multi-year demand script). *)
C16_OneRowPerNtaYear ==
    /\ UniqueKeys(concat(all_years_results))
    /\ UniqueKeys(final_df)
    /\ UniqueKeys(emci_csv)

(***************************************************************************)
(* Parcel Normalizer: clean_pluto_all_years.py merges the yearly CSV       *)
(* files, clean_mappluto_all_years_geo.py merges the yearly shapefile      *)
(* folders.  A source is a name and the files read under it (one for a     *)
(* CSV, the shapefiles of a folder); a file is readable or not and holds   *)
(* the bbl column of its rows.  The other columns are carried along        *)
(* unchanged and are left out.  Every merged row remembers the source it   *)
(* came from (src), which the scripts do not store.                        *)
(***************************************************************************)
MaxFiles == 2

(* names in the order of sorted(glob.glob("pluto_*.csv")) *)
CsvNames ==
<<
    <<"p", "l", "u", "t", "o", "_", "1", "6", "v", "2", ".", "c", "s", "v">>,
    <<"p", "l", "u", "t", "o", "_", "1", "7", "v", "1", ".", "c", "s", "v">>,
    <<"p", "l", "u", "t", "o", "_", "2", "0", "1", "6", ".", "c", "s", "v">>,
    <<"p", "l", "u", "t", "o", "_", "2", "0", "1", "8", ".", "c", "s", "v">>,
    <<"p", "l", "u", "t", "o", "_", "l", "a", "t", "e", "s", "t", ".", "c", "s", "v">>
>>

(* names in the order of sorted(os.listdir(DATA_DIR)) *)
FolderNames ==
<<
    <<"M", "a", "p", "P", "L", "U", "T", "O", "_", "2", "0", "1", "6">>,
    <<"M", "a", "p", "P", "L", "U", "T", "O", "_", "2", "0", "1", "8">>,
    <<"M", "a", "p", "P", "L", "U", "T", "O", "_", "2", "1", "v", "3">>,
    <<"d", "o", "c", "s">>
>>

BblColumns == {<<1>>, <<1, 1>>, <<1, 2>>}

FileVals == [readable : BOOLEAN, bbl : BblColumns]

CharAt(s, i) == IF i \in 1..Len(s) THEN s[i] ELSE ""

DigitAt(s, i) == IsDigitChar(CharAt(s, i))

DigitVal(c) == (CHOOSE i \in 1..10 : Digits[i] = c) - 1

(* int(s[i:i+n]) *)
RECURSIVE py_int(_, _, _)
py_int(s, i, n) ==
    IF n = 0 THEN 0 ELSE py_int(s, i, n - 1) * 10 + DigitVal(s[i + n - 1])

(* re.search(r"(\d{2})(?=v?\d)", fname): start positions of a match *)
match(fname) ==
    {i \in 1..Len(fname) :
        /\ DigitAt(fname, i) /\ DigitAt(fname, i + 1)
        /\ \/ CharAt(fname, i + 2) = "v" /\ DigitAt(fname, i + 3)
           \/ DigitAt(fname, i + 2)}

(* re.search(r"20\d{2}", fname) *)
match4(fname) ==
    {i \in 1..Len(fname) :
        /\ CharAt(fname, i) = "2" /\ CharAt(fname, i + 1) = "0"
        /\ DigitAt(fname, i + 2) /\ DigitAt(fname, i + 3)}

(* clean_pluto_all_years.py 55-69: the year of a file, 0 when none is
   recognised; re.search takes the leftmost match *)
detect_year(fname) ==
    IF match(fname) # {} THEN 2000 + py_int(fname, MinOf(match(fname)), 2)
    ELSE IF match4(fname) # {} THEN py_int(fname, MinOf(match4(fname)), 4)
    ELSE 0

(* "20?" is greedy: the 0 is taken when two digits follow it *)
WithZero(folder, i) ==
    CharAt(folder, i + 1) = "0" /\ DigitAt(folder, i + 2) /\ DigitAt(folder, i + 3)

(* re.search(r"20?(\d{2})", folder) *)
year_match(folder) ==
    {i \in 1..Len(folder) :
        /\ CharAt(folder, i) = "2"
        /\ \/ WithZero(folder, i)
           \/ DigitAt(folder, i + 1) /\ DigitAt(folder, i + 2)}

(* clean_mappluto_all_years_geo.py 80: int("20" + year_match.group(1)) *)
folder_year(folder) ==
    LET i == MinOf(year_match(folder))
    IN  2000 + py_int(folder, IF WithZero(folder, i) THEN i + 2 ELSE i + 1, 2)

(* df["year"] = year / gdf["year"] = year *)
WithYear(bbl, year, src) ==
    [i \in 1..Len(bbl) |-> [bbl |-> bbl[i], year |-> year, src |-> src]]

(* drop_duplicates(subset=["bbl", "year"]): the first row of each key stays *)
drop_duplicates(t) ==
    PickSeq(t, {i \in 1..Len(t) :
                    \A j \in 1..(i - 1) : t[j].bbl # t[i].bbl \/ t[j].year # t[i].year})

ReadableParts(parts) == PickSeq(parts, {i \in 1..Len(parts) : parts[i].readable})

(* load_by_borough: unreadable shapefiles are reported and left out; the
   result is None (here <<>> with ok = FALSE) when nothing was read *)
load_by_borough(parts, year, src) ==
    LET read == ReadableParts(parts)
    IN  [ok   |-> read # <<>>,
         rows |-> WithYear(concat([i \in 1..Len(read) |-> read[i].bbl]), year, src)]

Sources(names, vals) ==
    [i \in 1..Len(names) |-> [name |-> names[i], parts |-> vals[i]]]

Init0 ==
    /\ script0 \in {"csv", "geo"}
    /\ \E n \in 1..MaxFiles :
       \E I \in SUBSET (1..Len(IF script0 = "csv" THEN CsvNames ELSE FolderNames)) :
          /\ Cardinality(I) = n
          /\ IF script0 = "csv"
             THEN \E v \in [1..n -> FileVals] :
                    files = Sources(PickSeq(CsvNames, I), [i \in 1..n |-> <<v[i]>>])
             ELSE \E v \in [1..n -> UNION {[1..k -> FileVals] : k \in 0..2}] :
                    files = Sources(PickSeq(FolderNames, I), v)
    /\ fi = 1
    /\ all_data = <<>>
    /\ pc0 = "loop"
    /\ out0 = [name |-> "", rows |-> <<>>]
    /\ Idle1 /\ Idle4 /\ IdleT /\ Idle3 /\ Idle5 /\ FullSchema /\ Idle6 /\ Idle7 /\ Idle8

(* clean_pluto_all_years.py 51-103: one file of the loop *)
CP_File ==
    /\ script0 = "csv" /\ pc0 = "loop" /\ fi <= Len(files)
    /\ LET f    == files[fi]
           year == detect_year(f.name)
       IN  all_data' =
               IF f.parts[1].readable
               THEN Append(all_data, WithYear(f.parts[1].bbl, year, f.name))
               ELSE all_data
    /\ fi' = fi + 1
    /\ UNCHANGED <<script0, files, pc0, out0, rest0>>

(* clean_pluto_all_years.py 106-113 *)
CP_Merge ==
    /\ script0 = "csv" /\ pc0 = "loop" /\ fi > Len(files)
    /\ out0' =
           IF all_data = <<>> THEN out0
           ELSE [name |-> "scripts/pluto_all_years.csv",
                 rows |-> drop_duplicates(concat(all_data))]
    /\ pc0' = "done"
    /\ UNCHANGED <<script0, files, fi, all_data, rest0>>

(* clean_mappluto_all_years_geo.py 76-96: one folder of the loop; an
   unreadable citywide shapefile raises out of load_citywide *)
MP_Folder ==
    /\ script0 = "geo" /\ pc0 = "loop" /\ fi <= Len(files)
    /\ LET f == files[fi]
       IN  IF year_match(f.name) = {}
           THEN /\ fi' = fi + 1
                /\ UNCHANGED <<all_data, pc0>>
           ELSE LET year == folder_year(f.name)
                IN  IF year <= 2017
                    THEN LET gdf == load_by_borough(f.parts, year, f.name)
                         IN  /\ all_data' =
                                    IF gdf.ok THEN Append(all_data, gdf.rows) ELSE all_data
                             /\ fi' = fi + 1
                             /\ UNCHANGED pc0
                    ELSE IF f.parts = <<>>
                    THEN /\ fi' = fi + 1
                         /\ UNCHANGED <<all_data, pc0>>
                    ELSE IF f.parts[1].readable
                    THEN /\ all_data' =
                                Append(all_data, WithYear(f.parts[1].bbl, year, f.name))
                         /\ fi' = fi + 1
                         /\ UNCHANGED pc0
                    ELSE /\ pc0' = "raised"
                         /\ UNCHANGED <<all_data, fi>>
    /\ UNCHANGED <<script0, files, out0, rest0>>

(* clean_mappluto_all_years_geo.py 99-117: no key filter before the export *)
MP_Merge ==
    /\ script0 = "geo" /\ pc0 = "loop" /\ fi > Len(files)
    /\ out0' =
           IF all_data = <<>> THEN out0
           ELSE [name |-> "outputs/pluto_all_years.geojson", rows |-> concat(all_data)]
    /\ pc0' = "done"
    /\ UNCHANGED <<script0, files, fi, all_data, rest0>>

Next0 == CP_File \/ CP_Merge \/ MP_Folder \/ MP_Merge

SpecNormalize == Init0 /\ [][Next0]_vars

(***************************************************************************)
(* Properties of the Parcel Normalizer.                                    *)
(***************************************************************************)
Merged == out0.name # ""

(* C17: the merged multi-year parcel table, in the CSV variant and in the
   GeoJSON variant, has no two rows with the same (bbl, year) *)
C17_UniqueParcelYear ==
    \A i, j \in 1..Len(out0.rows) :
        (out0.rows[i].bbl = out0.rows[j].bbl /\ out0.rows[i].year = out0.rows[j].year)
            => i = j

CsvUniqueParcelYear == script0 = "csv" => C17_UniqueParcelYear

(* a year is written in the name as 20YY or as YYvN *)
NamesAYear(name) == match4(name) # {} \/ match(name) # {}

Unnamed == {i \in 1..Len(files) : ~NamesAYear(files[i].name)}

(* C18: a source whose name carries no year makes the run stop without a
   merged table; its rows are never written under a default year and it is
   never passed over while the others are merged *)
C18_NoYearHalts == (Unnamed # {}) => ~Merged

NoDefaultYear == \A i \in 1..Len(out0.rows) : out0.rows[i].year # 0

(* the year the name states: YY of pluto_YYvN, 20YY of pluto_20YY *)
StatedYear(name) ==
    IF match4(name) # {} THEN py_int(name, MinOf(match4(name)), 4)
    ELSE 2000 + py_int(name, MinOf(match(name)), 2)

Tagged == {r \in Range(concat(all_data)) : NamesAYear(r.src)}

(* C19: every row of a file named pluto_YYvN or pluto_20YY is tagged with
   the year 20YY, and files of different years never get the same tag *)
C19_TaggedWithStatedYear ==
    script0 = "csv" =>
        /\ \A r \in Tagged : r.year = StatedYear(r.src)
        /\ \A r, q \in Tagged : StatedYear(r.src) # StatedYear(q.src) => r.year # q.year

ShortFormTagged ==
    script0 = "csv" =>
        \A r \in Tagged : match4(r.src) = {} => r.year = StatedYear(r.src)

Unreadable ==
    {i \in 1..Len(files) : \E k \in 1..Len(files[i].parts) : ~files[i].parts[k].readable}

(* C20: when a detected yearly source cannot be read the run stops and no
   merged table is written *)
C20_UnreadableHalts == (Unreadable # {}) => ~Merged

(***************************************************************************)
(* The scripts that read the merged parcel table, started on a table that  *)
(* may lack required columns.                                              *)
(***************************************************************************)
InitSchema ==
    /\ pluto_columns \in SUBSET RequiredColumns
    /\ \/ /\ script4 \in {"D_time", "calc"}
          /\ \E a \in [1..1 -> ParcelVals] : pluto = ParcelTable(a)
          /\ years4 = <<>>
          /\ pluto_all = <<>>
          /\ nta_out = <<>>
          /\ pc4 = "start"
          /\ out4 = [parcel |-> <<>>, nta |-> <<>>, written |-> {}]
          /\ Idle5
       \/ /\ eci_summary \in EciFiles
          /\ \E da \in DemandOfA, db \in DemandOfB : d_nta = DemandFile(da, db)
          /\ pluto_lots \in [1..1 -> LotVals]
          /\ years5 = <<>>
          /\ all_years_results = <<>>
          /\ final_df = <<>>
          /\ pc5 = "start"
          /\ emci_csv = <<>>
          /\ features = <<>>
          /\ growth_df = <<>>
          /\ Idle4
    /\ Idle1 /\ IdleT /\ Idle3 /\ Idle0 /\ Idle6 /\ Idle7 /\ Idle8

NextSchema == Next4 \/ Next5

SpecSchema == InitSchema /\ [][NextSchema]_vars

(***************************************************************************)
(* Properties of the required-column checks.                               *)
(***************************************************************************)
Started4 == script4 # "none" /\ pc4 # "start"

Started5 == pc5 \notin {"idle", "start"}

(* C21: on a parcel table that lacks units_res, land_use, bbl or year each
   demand script raises before it writes a parcel-level or
   neighbourhood-level file, and the composite aggregator raises before it
   writes when year is absent *)
C21_MissingFieldRaisesBeforeWrite ==
    /\ (Started4 /\ pluto_columns # RequiredColumns)
           => (pc4 = "raised" /\ out4.written = {})
    /\ (Started5 /\ "year" \notin pluto_columns)
           => (pc5 = "raised" /\ emci_csv = <<>> /\ features = <<>> /\ growth_df = <<>>)

(* the same with year left out of the columns calc_building_demand.py needs *)
MissingFieldRaisesExceptYearInSnapshot ==
    /\ (Started4 /\ ~(IF script4 = "calc" THEN RequiredColumns \ {"year"}
                      ELSE RequiredColumns) \subseteq pluto_columns)
           => (pc4 = "raised" /\ out4.written = {})
    /\ (Started5 /\ "year" \notin pluto_columns)
           => (pc5 = "raised" /\ emci_csv = <<>> /\ features = <<>> /\ growth_df = <<>>)

(***************************************************************************)
(* Phase 6: julei.py.  The composite table is cut to the reference year,   *)
(* missing features are replaced by the column mean, the rows are          *)
(* clustered and every row is given a semantic name.  The fitted           *)
(* transforms and KMeans are not computed here: the cluster ids are any    *)
(* assignment of the n_clusters ids to the rows.  The names are the        *)
(* English renderings of the five Chinese strings of name_cluster.         *)
(***************************************************************************)
MaxSample == 4

RefYear == 2024

n_clusters == 4

(* julei.py 76 *)
feature_names == {"UpdateIndex", "eci", "D", "ECS", "EMCI"}

(* one remove-first step of a stable ascending sort *)
RECURSIVE SortedSeq(_)
SortedSeq(s) ==
    IF s = <<>> THEN <<>>
    ELSE LET i == CHOOSE i \in 1..Len(s) :
                    /\ \A j \in 1..Len(s) : ~FLt(s[j], s[i])
                    /\ \A j \in 1..(i - 1) : FLt(s[i], s[j])
         IN  <<s[i]>> \o SortedSeq(SubSeq(s, 1, i - 1) \o SubSeq(s, i + 1, Len(s)))

(* Series.quantile(qn / qd): linear interpolation between the order
   statistics around position (n - 1) q, NaN cells skipped *)
quantile(s, qn, qd) ==
    LET v == SortedSeq(NotNa(s))
        h == (Len(v) - 1) * qn
        i == h \div qd
        r == h % qd
    IN  IF v = <<>> THEN NaN
        ELSE IF r = 0 THEN v[i + 1]
        ELSE FAdd(v[i + 1], FMul(Fin(r, qd), FSub(v[i + 2], v[i + 1])))

(* julei.py 72 : df[df["year"] == 2024] *)
Slice(t) == SelectSeq(t, LAMBDA r : r.year = RefYear)

(* julei.py 77 : fillna(df_2024[features].mean()) *)
Impute(t) ==
    [i \in 1..Len(t) |->
        [c \in DOMAIN t[i] |->
            IF c \in feature_names THEN fillna(t[i][c], SMean(Column(t, c))) ELSE t[i][c]]]

(* a naming by the cluster id of the row *)
NameByClusterId(row, t) ==
    IF row.Cluster = 0 THEN "high-capability composite"
    ELSE IF row.Cluster = 1 THEN "high-coordination"
    ELSE IF row.Cluster = 2 THEN "high-demand/renewal"
    ELSE IF Len(t) > n_clusters THEN "low-support/vulnerable"
    ELSE "stable/moderate"

(* julei.py 110-121 *)
name_cluster(row, t) ==
    IF FLe(quantile(Column(t, "EMCI"), 3, 4), row.EMCI) THEN "high-capability composite"
    ELSE IF FLe(quantile(Column(t, "ECS"), 7, 10), row.ECS) THEN "high-coordination"
    ELSE IF FLe(quantile(Column(t, "D"), 7, 10), row.D) THEN "high-demand/renewal"
    ELSE IF FLe(row.eci, quantile(Column(t, "eci"), 3, 10)) THEN "low-support/vulnerable"
    ELSE "stable/moderate"

(* KMeans and the transforms before it reject a sample with fewer rows than
   clusters and a feature that is still NaN after the imputation *)
Clusterable(t) ==
    /\ Len(t) >= n_clusters
    /\ \A i \in 1..Len(t) : \A c \in feature_names : ~isna(t[i][c])

(* ---- inputs: emci_summary_by_nta.csv ---- *)
Bit == {I2F(0), I2F(1)}

(* feature rows: every combination of ECS, D and eci under a low EMCI, two
   rows with a high EMCI, one row without EMCI and one without eci *)
FeatureVals ==
    {f \in [EMCI : Bit \cup {NaN}, ECS : Bit, D : Bit, eci : Bit \cup {NaN}] :
        \/ f.EMCI = I2F(0) /\ ~isna(f.eci)
        \/ f.EMCI = I2F(1) /\ f.ECS = f.D /\ ~isna(f.eci) /\ f.eci # f.D
        \/ isna(f.EMCI) /\ f.ECS = I2F(0) /\ f.D = I2F(0) /\ f.eci = I2F(1)
        \/ isna(f.eci) /\ f.EMCI = I2F(0) /\ f.ECS = I2F(0) /\ f.D = I2F(0)}

FeatureSeq == SetToSeq(FeatureVals)

EmciRow(f, y) ==
    [year |-> y, UpdateIndex |-> I2F(1), eci |-> f.eci, D |-> f.D, ECS |-> f.ECS,
     EMCI |-> f.EMCI, Cluster |-> -1, ClusterName |-> ""]

(* a forecast row of the composite table, which follows the rows of the
   observed years in emci_summary_by_nta.csv *)
ForecastRow == EmciRow([EMCI |-> I2F(5), ECS |-> I2F(5), D |-> I2F(5), eci |-> I2F(-5)], FirstPredYear)

(* the rows of the reference year are listed in one fixed order of their
   values: neither the percentiles nor the name of a row depend on the
   order of the rows *)
Init6 ==
    /\ \E n \in 1..MaxSample : \E a \in [1..n -> 1..Len(FeatureSeq)] :
          /\ \A i \in 1..(n - 1) : a[i] <= a[i + 1]
          /\ df6 = [i \in 1..n |-> EmciRow(FeatureSeq[a[i]], RefYear)] \o <<ForecastRow>>
    /\ df_2024 = <<>>
    /\ pc6 = "start"
    /\ Idle1 /\ Idle4 /\ IdleT /\ Idle3 /\ Idle5 /\ Idle0 /\ FullSchema /\ Idle7 /\ Idle8

(* julei.py 69-77 *)
K_Slice ==
    /\ pc6 = "start"
    /\ df_2024' = Impute(Slice(df6))
    /\ pc6' = "cluster"
    /\ UNCHANGED <<df6, rest6>>

(* julei.py 84-99 *)
K_Cluster ==
    /\ pc6 = "cluster"
    /\ IF Clusterable(df_2024)
       THEN /\ \E c \in [1..Len(df_2024) -> 0..(n_clusters - 1)] :
                  df_2024' = [i \in 1..Len(df_2024) |-> [df_2024[i] EXCEPT !.Cluster = c[i]]]
            /\ pc6' = "name"
       ELSE /\ pc6' = "raised"
            /\ UNCHANGED df_2024
    /\ UNCHANGED <<df6, rest6>>

(* julei.py 123 : df_2024.apply(name_cluster, axis=1) *)
K_Name ==
    /\ pc6 = "name"
    /\ df_2024' =
          [i \in 1..Len(df_2024) |->
              [df_2024[i] EXCEPT !.ClusterName = name_cluster(df_2024[i], df_2024)]]
    /\ pc6' = "done"
    /\ UNCHANGED <<df6, rest6>>

Next6 == K_Slice \/ K_Cluster \/ K_Name

SpecCluster == Init6 /\ [][Next6]_vars

(***************************************************************************)
(* Properties of the cluster naming.                                       *)
(***************************************************************************)
ClusterNames ==
    {"high-capability composite", "high-coordination", "high-demand/renewal",
     "low-support/vulnerable", "stable/moderate"}

(* the rows of the reference year as read, before the imputation *)
ReferenceRows == SelectSeq(df6, LAMBDA r : r.year = RefYear)

(* column c of the reference year with the mean of its known cells in place
   of the missing ones *)
MeanImputed(c) ==
    LET col   == Column(ReferenceRows, c)
        known == {i \in 1..Len(col) : ~isna(col[i])}
        total == FoldSum([i \in 1..Len(col) |-> IF i \in known THEN col[i] ELSE I2F(0)])
    IN  [i \in 1..Len(col) |->
            IF i \in known THEN col[i] ELSE FDiv(total, I2F(Cardinality(known)))]

(* the k-th smallest cell, by counting *)
KthSmallest(col, k) ==
    CHOOSE v \in Range(col) :
        /\ Cardinality({i \in 1..Len(col) : FLt(col[i], v)}) < k
        /\ Cardinality({i \in 1..Len(col) : FLe(col[i], v)}) >= k

(* the qn/qd percentile: the weighted mean of the two order statistics
   around position (n - 1) qn / qd *)
Percentile(col, qn, qd) ==
    LET h  == (Len(col) - 1) * qn
        lo == (h \div qd) + 1
        r  == h % qd
    IN  IF r = 0 THEN KthSmallest(col, lo)
        ELSE FDiv(FAdd(FMul(I2F(qd - r), KthSmallest(col, lo)),
                       FMul(I2F(r), KthSmallest(col, lo + 1))), I2F(qd))

AtLeast(a, b) == ~FLt(a, b)

ExpectedName(i) ==
    LET EMCI == MeanImputed("EMCI")
        ECS  == MeanImputed("ECS")
        D    == MeanImputed("D")
        eci  == MeanImputed("eci")
    IN  IF AtLeast(EMCI[i], Percentile(EMCI, 75, 100)) THEN "high-capability composite"
        ELSE IF AtLeast(ECS[i], Percentile(ECS, 70, 100)) THEN "high-coordination"
        ELSE IF AtLeast(D[i], Percentile(D, 70, 100)) THEN "high-demand/renewal"
        ELSE IF AtLeast(Percentile(eci, 30, 100), eci[i]) THEN "low-support/vulnerable"
        ELSE "stable/moderate"

(* C22: once the rows are named, every row of the reference-year slice
   carries exactly one of the five names, chosen by the first matching rule
   against the percentiles of the mean-imputed slice, whatever cluster ids
   KMeans gave *)
C22_NamedByFirstMatchingRule ==
    pc6 = "done" =>
        /\ Len(df_2024) = Len(ReferenceRows)
        /\ \A i \in 1..Len(df_2024) :
              /\ df_2024[i].ClusterName \in ClusterNames
              /\ df_2024[i].ClusterName = ExpectedName(i)

C22_Witness ==
    /\ pc6 = "done"
    /\ Len(df6) > Len(df_2024)
    /\ \E i \in 1..Len(ReferenceRows) : isna(ReferenceRows[i].EMCI)
    /\ Cardinality({df_2024[i].ClusterName : i \in 1..Len(df_2024)}) >= 4
    /\ \E i, j \in 1..Len(df_2024) :
          /\ df_2024[i].Cluster = df_2024[j].Cluster
          /\ df_2024[i].ClusterName # df_2024[j].ClusterName

(***************************************************************************)
(* Properties of the cumulative density series.                            *)
(***************************************************************************)
(* the cleaned points inside neighbourhood name that were activated in
   year y or earlier *)
ActiveInside(name, y) ==
    {i \in 1..Len(linknyc) : linknyc[i].year <= y /\ within(linknyc[i].x) = name}

Identified(I) == {i \in I : linknyc[i].site_id # NaS}

LastAnalysisYear == MinOf({-n.year : n \in Range(linknyc)}) * (-1)

NeverDecreases ==
    \A r, q \in Range(annual_results) :
        (r.NTAName = q.NTAName /\ r.year <= q.year) => FLe(r.node_count, q.node_count)

(* C23: in the time-series density calculator the points counted for year
   y are those activated in y or earlier, so node_count never decreases
   from one analysis year to the next and, in the last analysis year, is
   the number of all cleaned points inside the neighbourhood *)
C23_CumulativeNodeCount ==
    script3 = "eci_time" =>
        /\ NeverDecreases
        /\ \A r \in Range(annual_results) :
              /\ r.node_count = I2F(Cardinality(ActiveInside(r.NTAName, r.year)))
              /\ r.year = LastAnalysisYear =>
                    r.node_count =
                        I2F(Cardinality({i \in 1..Len(linknyc) : within(linknyc[i].x) = r.NTAName}))

(* the same with only the points that carry a site_id counted *)
CumulativeIdentifiedCount ==
    script3 = "eci_time" =>
        /\ NeverDecreases
        /\ \A r \in Range(annual_results) :
              r.node_count = I2F(Cardinality(Identified(ActiveInside(r.NTAName, r.year))))

(***************************************************************************)
(* Properties of the parcel-level output and the neighbourhood counts.     *)
(***************************************************************************)
(* the rows of the neighbourhood output that belong to year y; the
   snapshot script writes one row per neighbourhood for its single year *)
NtaRowsOf(y) ==
    SelectSeq(out4.nta, LAMBDA r : script4 = "calc" \/ r.year = y)

InsideSome(y) == {r \in Range(pluto_all) : r.year = y /\ sjoin(r.cell) # "NaN"}

EveryParcelWritten ==
    "parcel" \in out4.written =>
        \A q \in Range(pluto) : \E r \in Range(out4.parcel) : r.row = q.row /\ r.cell = q.cell

(* C24: every parcel-year row handled by the script is in the parcel-level
   output, matched to a neighbourhood or not, and for each year the
   parcel_count values of the neighbourhoods add up to the number of that
   year's parcels whose centroid lies inside some neighbourhood *)
C24_UnmatchedKeptNotAggregated ==
    /\ EveryParcelWritten
    /\ "nta" \in out4.written =>
          \A y \in {r.year : r \in Range(pluto_all)} :
              FoldSum(Column(NtaRowsOf(y), "parcel_count")) = I2F(Cardinality(InsideSome(y)))

(* the same with only the parcels that carry a bbl counted *)
CountsParcelsWithBbl ==
    /\ EveryParcelWritten
    /\ "nta" \in out4.written =>
          \A y \in {r.year : r \in Range(pluto_all)} :
              FoldSum(Column(NtaRowsOf(y), "parcel_count")) =
                  I2F(Cardinality({r \in InsideSome(y) : ~isna(r.bbl)}))

(***************************************************************************)
(* classify_changes applied on its own to one parcel's rows               *)
(* (pluto_change_detection.py 29-62), the rows given in any order.         *)
(***************************************************************************)
MaxHistory == 3

HistoryYears == {I2F(FirstYear + i) : i \in 0..(MaxHistory - 1)}

HistoryAttrVals ==
    [year_built : {NaN, I2F(1990), I2F(2000)},
     land_use : {NaN, I2F(1), I2F(2)},
     bldg_area : {I2F(10), I2F(12)},
     units_res : {I2F(0), I2F(5)}]

(* the rows of one parcel, one per year, in any order *)
Orders == {ys \in [1..MaxHistory -> HistoryYears] :
              \A i, j \in 1..MaxHistory : i # j => ys[i] # ys[j]}

InitHistory ==
    /\ \E ys \in Orders, a \in [1..MaxHistory -> HistoryAttrVals] :
            group = [i \in 1..MaxHistory |-> MkRow(<<"1">>, ys[i], a[i])]
    /\ change = <<>>
    /\ Idle1 /\ Idle4 /\ IdleT /\ Idle3 /\ Idle5 /\ Idle0 /\ FullSchema /\ Idle6 /\ Idle8

ApplyClassify ==
    /\ change = <<>>
    /\ change' = classify_changes(group)
    /\ UNCHANGED <<group, rest7>>

SpecHistory == InitHistory /\ [][ApplyClassify]_vars

(***************************************************************************)
(* Properties of classify_changes on one parcel's history.                 *)
(***************************************************************************)
Applied == change # <<>>

Earliest == CHOOSE r \in Range(group) : \A q \in Range(group) : FLe(r.year, q.year)

Latest == CHOOSE r \in Range(group) : \A q \in Range(group) : FLe(q.year, r.year)

Reordered ==
    {[i \in 1..Len(group) |-> group[p[i]]] :
        p \in {q \in [1..Len(group) -> 1..Len(group)] :
                  \A i, j \in 1..Len(group) : i # j => q[i] # q[j]}}

LeastOf(c) == CHOOSE v \in {r[c] : r \in Range(group)} :
                  \A r \in Range(group) : FLe(v, r[c])

GreatestOf(c) == CHOOSE v \in {r[c] : r \in Range(group)} :
                     \A r \in Range(group) : FLe(r[c], v)

OrderFree ==
    /\ \A h \in Reordered : classify_changes(h) = change
    /\ change.year_built_first = Earliest.year_built
    /\ change.year_built_last = Latest.year_built
    /\ change.land_use_first = Earliest.land_use
    /\ change.land_use_last = Latest.land_use
    /\ change.bldg_area_min = LeastOf("bldg_area")
    /\ change.bldg_area_max = GreatestOf("bldg_area")
    /\ change.units_res_min = LeastOf("units_res")
    /\ change.units_res_max = GreatestOf("units_res")

(* land_use and year_built are, in the last year, what they were in the
   first year, whatever they were in between *)
BackToFirst ==
    /\ Earliest.land_use = Latest.land_use
    /\ Earliest.year_built = Latest.year_built

ChangedBetween ==
    \E r \in Range(group) :
        r.land_use # Earliest.land_use \/ r.year_built # Earliest.year_built

(* C25: for a parcel whose rows have distinct years the result of
   classify_changes is the same for every order of the rows, takes
   year_built and land_use from the rows of the earliest and latest year
   only and the bldg_area and units_res extremes over all rows; a land_use
   or year_built that differs in an intermediate year and is back to its
   first value in the last year gives neither UseChange nor Rebuilt. *)
C25_OrderFreeEndpointsOnly ==
    Applied =>
        /\ OrderFree
        /\ (BackToFirst /\ ChangedBetween) => change.change_type \notin {"UseChange", "Rebuilt"}

(* the same, for a parcel whose land_use is recorded in its first or its
   last year *)
EndpointsOnlyWhereLandUseRecorded ==
    Applied =>
        /\ OrderFree
        /\ (BackToFirst /\ ChangedBetween /\ ~(isna(Earliest.land_use) /\ isna(Latest.land_use)))
              => change.change_type \notin {"UseChange", "Rebuilt"}

RevertedUnsorted ==
    /\ Applied
    /\ BackToFirst /\ ChangedBetween
    /\ ~isna(Earliest.land_use)
    /\ group # sort_values(group, "year")
    /\ change.change_type \notin {"UseChange", "Rebuilt"}

(***************************************************************************)
(* Keyword scoring of a land_use text.                                     *)
(***************************************************************************)
SameLetter(a, b) == LowerChar(a) = LowerChar(b)

(* the text holds the word k somewhere, in any mix of upper and lower case *)
Mentions(text, k) ==
    \E i \in 1..(Len(text) - Len(k) + 1) :
        \A j \in 1..Len(k) : SameLetter(text[i + j - 1], k[j])

KeywordOrder ==
    <<[words |-> {<<"r", "e", "s", "i", "d">>}, score |-> I2F(1)],
      [words |-> {<<"m", "i", "x">>}, score |-> Fin(17, 20)],
      [words |-> {<<"c", "o", "m", "m">>, <<"o", "f", "f", "i", "c", "e">>},
       score |-> Fin(3, 5)],
      [words |-> {<<"i", "n", "d">>}, score |-> Fin(7, 10)]>>

Matching(text) ==
    {i \in 1..Len(KeywordOrder) : \E k \in KeywordOrder[i].words : Mentions(text, k)}

NonNumeric == land_use_cell.t = "str" /\ ~isdigit(strip(land_use_cell.s))

(* C26: a non-numeric land_use value is scored by the first keyword, in the
   order resid, mix, comm or office, ind, that it holds as a
   case-insensitive substring (1.0, 0.85, 0.6, 0.7), and 0.5 when it holds
   none; a value holding several keywords gets the score of the earliest
   one in that order. *)
C26_FirstKeywordInOrder ==
    (d_type # <<>> /\ NonNumeric) =>
        d_type[1] = IF Matching(land_use_cell.s) = {} THEN Fin(1, 2)
                    ELSE KeywordOrder[MinOf(Matching(land_use_cell.s))].score

C26_Witness ==
    /\ d_type # <<>> /\ NonNumeric
    /\ Cardinality(Matching(land_use_cell.s)) = 2
    /\ Mentions(SubSeq(land_use_cell.s, 1, 3), <<"m", "i", "x">>)
    /\ d_type[1] = I2F(1)

(***************************************************************************)
(* The normaliser of the yearly loop against the normaliser of the map.    *)
(***************************************************************************)
Renormalized == pc5 \in {"map", "growth", "done"}

(* the rows of year y are in the map table what they are in the CSV *)
SameAsCsv(y) == Range(YearRows(final_df, y)) = Range(YearRows(emci_csv, y))

(* C27: for every historical neighbourhood-year the EMCI_norm recomputed by
   normalize_emci for the map equals the EMCI_norm computed by
   normalize_series and written to CSV, also in a year in which all
   neighbourhoods have the same EMCI, where both give 0 and neither NaN. *)
C27_NormalizersAgree ==
    Renormalized =>
        \A y \in ObservedYears :
            /\ SameAsCsv(y)
            /\ Cardinality(EmciValues(emci_csv, y)) = 1 =>
                  \A r \in Range(YearRows(final_df, y)) \cup Range(YearRows(emci_csv, y)) :
                      r.EMCI_norm = I2F(0)

(* the normalisers agree in the years with at least two distinct EMCI; in a
   year with one EMCI value the CSV holds 0 and the map table NaN *)
NormalizersAgreeWhenDistinct ==
    Renormalized =>
        \A y \in ObservedYears :
            /\ Cardinality(EmciValues(emci_csv, y)) > 1 => SameAsCsv(y)
            /\ Cardinality(EmciValues(emci_csv, y)) = 1 =>
                  /\ \A r \in Range(YearRows(emci_csv, y)) : r.EMCI_norm = I2F(0)
                  /\ \A r \in Range(YearRows(final_df, y)) : isna(r.EMCI_norm)

(***************************************************************************)
(* Sign and finiteness of the composite index.                             *)
(***************************************************************************)
NonNegative(x) == x.k = "fin" /\ FLe(I2F(0), x)

NonNegativeInputs(r) ==
    /\ NonNegative(r.node_count) /\ NonNegative(r.resource_count)
    /\ NonNegative(r.eci) /\ NonNegative(r.D)
    /\ r.area_km2.k = "fin" /\ FGt(r.area_km2, I2F(0))

(* C28: in every neighbourhood-year row of the composite table computed
   from non-negative node_count, resource_count, eci and D and a positive
   area_km2, EMCI_raw and EMCI are finite and >= 0, and EMCI is 0 whenever
   node_count, resource_count or eci is 0. *)
C28_EmciFiniteNonNegative ==
    \A r \in HistoricalRows :
        NonNegativeInputs(r) =>
            /\ NonNegative(r.EMCI_raw) /\ NonNegative(r.EMCI)
            /\ (r.node_count = I2F(0) \/ r.resource_count = I2F(0) \/ r.eci = I2F(0))
                  => r.EMCI = I2F(0)

C28_Witness ==
    \E r, q \in HistoricalRows :
        /\ NonNegativeInputs(r) /\ NonNegativeInputs(q)
        /\ FGt(r.node_count, I2F(0)) /\ FGt(r.resource_count, I2F(0))
        /\ FGt(r.eci, I2F(0)) /\ FGt(r.D, I2F(0)) /\ FGt(r.EMCI, I2F(0))
        /\ q.node_count = I2F(0) /\ FGt(q.resource_count, I2F(0))
        /\ FGt(q.eci, I2F(0)) /\ q.EMCI = I2F(0)

(***************************************************************************)
(* What varies between the years of one neighbourhood.                     *)
(***************************************************************************)
RowsOf(name, y) == {r \in HistoricalRows : r.NTAName = name /\ r.year = y}

YearsComputed == {r.year : r \in HistoricalRows}

Attached(r) ==
    [node_count |-> r.node_count, area_km2 |-> r.area_km2, eci |-> r.eci, D |-> r.D,
     building_density |-> r.building_density, UpdateIndex |-> r.UpdateIndex]

FromResourceCount(r) == [ERP |-> r.ERP, ECS |-> r.ECS, EMCI_raw |-> r.EMCI_raw, EMCI |-> r.EMCI]

(* C29: the node_count, area_km2, eci and D attached to a neighbourhood are
   the same in every historical year; between two historical years of a
   neighbourhood only resource_count and the values derived from it can
   differ. *)
C29_OnlyResourceCountVaries ==
    \A name \in {r.NTAName : r \in HistoricalRows} :
        \A y1, y2 \in YearsComputed :
            /\ {Attached(r) : r \in RowsOf(name, y1)} = {Attached(r) : r \in RowsOf(name, y2)}
            /\ \A r \in RowsOf(name, y1), q \in RowsOf(name, y2) :
                  (Attached(r) = Attached(q) /\ r.resource_count = q.resource_count)
                      => FromResourceCount(r) = FromResourceCount(q)

C29_Witness ==
    /\ pc5 = "done"
    /\ \E r, q \in HistoricalRows :
          /\ r.NTAName = q.NTAName /\ r.year # q.year
          /\ Attached(r) = Attached(q)
          /\ FGt(r.D, I2F(0))
          /\ r.resource_count # q.resource_count
          /\ r.EMCI # q.EMCI
    /\ \E name \in {r.NTAName : r \in HistoricalRows}, y \in YearsComputed :
          Cardinality({r.D : r \in RowsOf(name, y)}) > 1

(***************************************************************************)
(* merge.py : the csv files of one folder concatenated into one table.     *)
(***************************************************************************)
MaxInputs == 3

MaxFileRows == 2

ColumnLists == {<<"a", "b">>, <<"b", "a">>, <<"a">>, <<"a", "c">>}

(* a csv file of the folder: unreadable, or a header and some rows *)
InputFile(i, ok, cols, n) ==
    [readable |-> ok, columns |-> cols,
     rows |-> [k \in 1..n |-> [src |-> i, k |-> k]]]

InputFiles ==
    UNION {[1..n -> [readable : BOOLEAN, columns : ColumnLists, n : 0..MaxFileRows]] :
              n \in 0..MaxInputs}

(* merge.py 15-22 : os.listdir filtered by suffix, in listing order *)
Init8 ==
    /\ \E c \in InputFiles :
          /\ \A i \in 1..Len(c) : ~c[i].readable => (c[i].columns = <<"a">> /\ c[i].n = 0)
          /\ all_files = [i \in 1..Len(c) |-> InputFile(i, c[i].readable, c[i].columns, c[i].n)]
    /\ file_i = 1
    /\ dfs = <<>>
    /\ first_columns = {}
    /\ merged_df = <<>>
    /\ pc8 = "list"
    /\ out8 = [written |-> FALSE, rows |-> <<>>]
    /\ Idle1 /\ Idle4 /\ IdleT /\ Idle3 /\ Idle5 /\ Idle0 /\ FullSchema /\ Idle6 /\ Idle7

(* subset test in place of the equality of line 41 *)
ColumnsWithin(columns, first) == Range(columns) \subseteq first

(* merge.py 41 : set(df.columns) != first_columns, negated *)
same_columns(columns, first) == Range(columns) = first

(* merge.py 24-26 *)
M_List ==
    /\ pc8 = "list"
    /\ pc8' = IF all_files = <<>> THEN "exit" ELSE "loop"
    /\ UNCHANGED <<all_files, file_i, dfs, first_columns, merged_df, out8, rest8>>

(* merge.py 30-47 : one iteration of the loop over all_files *)
M_File ==
    /\ pc8 = "loop" /\ file_i <= Len(all_files)
    /\ LET df_read == all_files[file_i]
       IN  IF ~df_read.readable
           THEN UNCHANGED <<dfs, first_columns>>
           ELSE IF dfs = <<>>
           THEN /\ first_columns' = Range(df_read.columns)
                /\ dfs' = Append(dfs, df_read)
           ELSE IF ~same_columns(df_read.columns, first_columns)
           THEN UNCHANGED <<dfs, first_columns>>
           ELSE /\ dfs' = Append(dfs, df_read)
                /\ UNCHANGED first_columns
    /\ file_i' = file_i + 1
    /\ UNCHANGED <<all_files, merged_df, pc8, out8, rest8>>

(* merge.py 50-59 *)
M_Concat ==
    /\ pc8 = "loop" /\ file_i > Len(all_files)
    /\ IF dfs # <<>>
       THEN /\ merged_df' = concat([i \in 1..Len(dfs) |-> dfs[i].rows])
            /\ out8' = [written |-> TRUE, rows |-> merged_df']
       ELSE UNCHANGED <<merged_df, out8>>
    /\ pc8' = "done"
    /\ UNCHANGED <<all_files, file_i, dfs, first_columns, rest8>>

Next8 == M_List \/ M_File \/ M_Concat

SpecMerge == Init8 /\ [][Next8]_vars

(***************************************************************************)
(* Properties of the folder merge.                                         *)
(***************************************************************************)
Readable == {i \in 1..Len(all_files) : all_files[i].readable}

FirstRead == MinOf(Readable)

Accepted ==
    {i \in Readable : Range(all_files[i].columns) = Range(all_files[FirstRead].columns)}

RowsOfAccepted == UNION {Range(all_files[i].rows) : i \in Accepted}

InReadOrder(rows) ==
    \A i, j \in 1..Len(rows) :
        i < j => \/ rows[i].src < rows[j].src
                 \/ rows[i].src = rows[j].src /\ rows[i].k < rows[j].k

(* C30: the output holds exactly the rows of the input files whose set of
   column names equals that of the first successfully read file, in read
   order; a file with another column set or one that fails to read
   contributes no rows and does not stop the run; when no file is accepted
   no output file is written. *)
C30_RowsOfMatchingFiles ==
    /\ pc8 \in {"exit", "done"} =>
          /\ out8.written <=> Accepted # {}
          /\ out8.written =>
                /\ Range(out8.rows) = RowsOfAccepted
                /\ InReadOrder(out8.rows)
    /\ pc8 = "done" => file_i = Len(all_files) + 1
    /\ pc8 = "exit" => all_files = <<>>

C30_Witness ==
    /\ pc8 = "done" /\ out8.written
    /\ Len(all_files) = 3
    /\ ~all_files[1].readable
    /\ all_files[2].columns = <<"a", "b">> /\ Len(all_files[2].rows) = 2
    /\ all_files[3].columns = <<"a">> /\ Len(all_files[3].rows) > 0
    /\ Len(out8.rows) = 2

SkippedAll ==
    /\ pc8 = "done" /\ ~out8.written /\ all_files # <<>>

ReorderedColumnsAccepted ==
    /\ pc8 = "done"
    /\ \E i, j \in Accepted : all_files[i].columns # all_files[j].columns
    /\ Len(out8.rows) > Len(all_files[FirstRead].rows)

====
